---- MODULE Spec2Model ----
(***************************************************************************)
(* The GOST 28147-89 implementation of gost.c (table-driven round          *)
(* function, single-block core, counter and CFB modes, MAC, 4-lane batch   *)
(* engine) and of the interleaved / Boolean-circuit variants of GOST.C.    *)
(*                                                                         *)
(* A word32 is kept at its full width of 32 bits as the tuple of its four  *)
(* bytes <<b0, b1, b2, b3>>, b0 the least significant; every arithmetic    *)
(* operation below is unsigned arithmetic modulo 2^32 on that tuple.       *)
(***************************************************************************)
EXTENDS Integers, Sequences, FiniteSets, TLC

VARIABLES
    kbox_ready, k87, k65, k43, k21, f_tables,   \* globals of gost.c
    variant,                                    \* globals of the interleaved variant of GOST.C
    key, iv, inbuf, outbuf,                     \* the caller's memory
    pc, aux                                     \* the caller's position and what it remembers

vars ==
    <<kbox_ready, k87, k65, k43, k21, f_tables, variant, key, iv, inbuf, outbuf, pc, aux>>
gvars == <<kbox_ready, k87, k65, k43, k21, f_tables, variant>>

----------------------------------------------------------------------------
(* Unsigned 32-bit arithmetic *)

Bit(v, i) == (v \div (2^i)) % 2

\* The truth tables of ^, | and & on one bit: tt[a + 1][b + 1].
XorBit == <<<<0, 1>>, <<1, 0>>>>
OrBit == <<<<0, 1>>, <<1, 1>>>>
AndBit == <<<<0, 0>>, <<0, 1>>>>

\* A bitwise operator on two values below 16.
NibOp(tt, a, b) ==
    tt[Bit(a, 0) + 1][Bit(b, 0) + 1] + (2 * tt[Bit(a, 1) + 1][Bit(b, 1) + 1])
      + (4 * tt[Bit(a, 2) + 1][Bit(b, 2) + 1]) + (8 * tt[Bit(a, 3) + 1][Bit(b, 3) + 1])

\* The array with the entries of f, each computed once.
Table(f) == f @@ <<>>

XorNib == Table([a \in 0..15 |-> Table([b \in 0..15 |-> NibOp(XorBit, a, b)])])
OrNib == Table([a \in 0..15 |-> Table([b \in 0..15 |-> NibOp(OrBit, a, b)])])
AndNib == Table([a \in 0..15 |-> Table([b \in 0..15 |-> NibOp(AndBit, a, b)])])

Xor8(a, b) == (XorNib[a \div 16][b \div 16] * 16) + XorNib[a % 16][b % 16]
Or8(a, b) == (OrNib[a \div 16][b \div 16] * 16) + OrNib[a % 16][b % 16]
And8(a, b) == (AndNib[a \div 16][b \div 16] * 16) + AndNib[a % 16][b % 16]

\* The word with bytes b3 b2 b1 b0 in reading order (0xb3b2b1b0).
W32(b3, b2, b1, b0) == <<b0, b1, b2, b3>>
Zero32 == W32(0, 0, 0, 0)
\* A value below 256 widened to word32, as in (word32)k87[i].
FromByte(b) == W32(0, 0, 0, b)
\* x & 255 as an array index.
Low8(x) == x[1]

Xor32(x, y) == <<Xor8(x[1], y[1]), Xor8(x[2], y[2]), Xor8(x[3], y[3]), Xor8(x[4], y[4])>>
Or32(x, y) == <<Or8(x[1], y[1]), Or8(x[2], y[2]), Or8(x[3], y[3]), Or8(x[4], y[4])>>
And32(x, y) == <<And8(x[1], y[1]), And8(x[2], y[2]), And8(x[3], y[3]), And8(x[4], y[4])>>

\* x + y modulo 2^32: byte-wise addition with carry, the carry out of b3 dropped.
Add32(x, y) ==
    LET s1 == x[1] + y[1]
        s2 == x[2] + y[2] + (s1 \div 256)
        s3 == x[3] + y[3] + (s2 \div 256)
        s4 == x[4] + y[4] + (s3 \div 256)
    IN  <<s1 % 256, s2 % 256, s3 % 256, s4 % 256>>

\* x < y on unsigned words.
Less32(x, y) ==
    \/ x[4] < y[4]
    \/ x[4] = y[4] /\ x[3] < y[3]
    \/ x[4] = y[4] /\ x[3] = y[3] /\ x[2] < y[2]
    \/ x[4] = y[4] /\ x[3] = y[3] /\ x[2] = y[2] /\ x[1] < y[1]

ByteAt(x, j) == IF j >= 1 /\ j <= 4 THEN x[j] ELSE 0

\* x << n and x >> n for 0 <= n < 32, bits shifted out are lost.
ShlByte(x, q, r, j) ==
    ((ByteAt(x, j - q) * (2^r)) % 256) + (ByteAt(x, j - q - 1) \div (2^(8 - r)))

Shl32(x, n) ==
    <<ShlByte(x, n \div 8, n % 8, 1), ShlByte(x, n \div 8, n % 8, 2),
      ShlByte(x, n \div 8, n % 8, 3), ShlByte(x, n \div 8, n % 8, 4)>>

ShrByte(x, q, r, j) ==
    (ByteAt(x, j + q) \div (2^r)) + ((ByteAt(x, j + q + 1) * (2^(8 - r))) % 256)

Shr32(x, n) ==
    <<ShrByte(x, n \div 8, n % 8, 1), ShrByte(x, n \div 8, n % 8, 2),
      ShrByte(x, n \div 8, n % 8, 3), ShrByte(x, n \div 8, n % 8, 4)>>

\* c * x modulo 2^32 for a small count c, by repeated addition.
RECURSIVE Times32(_, _)
Times32(c, x) == IF c = 0 THEN Zero32 ELSE Add32(x, Times32(c - 1, x))

----------------------------------------------------------------------------
(* gost.c: substitution boxes and the tables built from them *)

SBox(row) == Table([i \in 0..15 |-> row[i + 1]])

k8 == SBox(<<14,  4, 13,  1,  2, 15, 11,  8,  3, 10,  6, 12,  5,  9,  0,  7>>)
k7 == SBox(<<15,  1,  8, 14,  6, 11,  3,  4,  9,  7,  2, 13, 12,  0,  5, 10>>)
k6 == SBox(<<10,  0,  9, 14,  6,  3, 15,  5,  1, 13, 12,  7, 11,  4,  2,  8>>)
k5 == SBox(<< 7, 13, 14,  3,  0,  6,  9, 10,  1,  2,  8,  5, 11, 12,  4, 15>>)
k4 == SBox(<< 2, 12,  4,  1,  7, 10, 11,  6,  8,  5,  3, 15, 13,  0, 14,  9>>)
k3 == SBox(<<12,  1, 10, 15,  9,  2,  6,  8,  0, 13,  3,  4, 14,  7,  5, 11>>)
k2 == SBox(<< 4, 11,  2, 14, 15,  0,  8, 13,  3, 12,  9,  7,  5, 10,  6,  1>>)
k1 == SBox(<<13,  2,  8,  4,  6, 15, 11,  1, 10,  9,  3, 14,  5,  0, 12,  7>>)

\* Static storage is zero before kboxinit has run.
ZeroBytes == Table([i \in 0..255 |-> 0])
ZeroWords == Table([i \in 0..255 |-> Zero32])

\* The globals of gost.c as one value, so that an operation can read the tables
\* its own call to kboxinit has just built.
Globals ==
    [kbox_ready |-> kbox_ready, k87 |-> k87, k65 |-> k65, k43 |-> k43, k21 |-> k21,
     f_tables |-> f_tables]

SetGlobals(g) ==
    /\ kbox_ready' = g.kbox_ready
    /\ k87' = g.k87
    /\ k65' = g.k65
    /\ k43' = g.k43
    /\ k21' = g.k21
    /\ f_tables' = g.f_tables
    /\ UNCHANGED variant

\* The static arrays of the variant: k87, k65, k43, k21 and T0 .. T3.
ZeroVariant ==
    [k87 |-> ZeroBytes, k65 |-> ZeroBytes, k43 |-> ZeroBytes, k21 |-> ZeroBytes,
     T0 |-> ZeroWords, T1 |-> ZeroWords, T2 |-> ZeroWords, T3 |-> ZeroWords]

InitGlobals ==
    /\ kbox_ready = 0
    /\ k87 = ZeroBytes
    /\ k65 = ZeroBytes
    /\ k43 = ZeroBytes
    /\ k21 = ZeroBytes
    /\ f_tables = Table([t \in 0..3 |-> ZeroWords])
    /\ variant = ZeroVariant

\* Fault: the rotation loses the bits shifted out at the top.
rotl32_shift_only(x, bits) == Shl32(x, bits)

rotl32(x, bits) == Or32(Shl32(x, bits), Shr32(x, 32 - bits))

\* (unsigned char)(hi[i >> 4] << 4 | lo[i & 15])
PackNibbles(hi, lo, i) == Or8((hi[i \div 16] * 16) % 256, lo[And8(i, 15)])

kboxinit(g) ==
    IF g.kbox_ready # 0
    THEN g
    ELSE LET b87 == Table([i \in 0..255 |-> PackNibbles(k8, k7, i)])
             b65 == Table([i \in 0..255 |-> PackNibbles(k6, k5, i)])
             b43 == Table([i \in 0..255 |-> PackNibbles(k4, k3, i)])
             b21 == Table([i \in 0..255 |-> PackNibbles(k2, k1, i)])
         IN  [kbox_ready |-> 1, k87 |-> b87, k65 |-> b65, k43 |-> b43, k21 |-> b21,
              f_tables |->
                Table([t \in 0..3 |->
                    Table([i \in 0..255 |->
                        CASE t = 0 -> rotl32(Shl32(FromByte(b87[i]), 24), 11)
                          [] t = 1 -> rotl32(Shl32(FromByte(b65[i]), 16), 11)
                          [] t = 2 -> rotl32(Shl32(FromByte(b43[i]), 8), 11)
                          [] t = 3 -> rotl32(FromByte(b21[i]), 11)])])]

\* Reference F function using the byte tables, then the explicit rotation.
f_reference(g, x) ==
    rotl32(Or32(Or32(Shl32(FromByte(g.k87[And8(Low8(Shr32(x, 24)), 255)]), 24),
                     Shl32(FromByte(g.k65[And8(Low8(Shr32(x, 16)), 255)]), 16)),
                Or32(Shl32(FromByte(g.k43[And8(Low8(Shr32(x, 8)), 255)]), 8),
                     FromByte(g.k21[And8(Low8(x), 255)]))),
           11)

\* Fault: the two middle bytes of x index each other's table.
f_fast_swapped_bytes(g, x) ==
    Xor32(Xor32(g.f_tables[0][Low8(Shr32(x, 24))],
                g.f_tables[1][And8(Low8(Shr32(x, 8)), 255)]),
          Xor32(g.f_tables[2][And8(Low8(Shr32(x, 16)), 255)],
                g.f_tables[3][And8(Low8(x), 255)]))

\* Optimised F: XOR of the four pre-rotated per-byte tables.
f_fast(g, x) ==
    Xor32(Xor32(g.f_tables[0][Low8(Shr32(x, 24))],
                g.f_tables[1][And8(Low8(Shr32(x, 16)), 255)]),
          Xor32(g.f_tables[2][And8(Low8(Shr32(x, 8)), 255)],
                g.f_tables[3][And8(Low8(x), 255)]))

\* The call through the gost_round_fn pointer.
CallF(f_fn, g, x) == IF f_fn = "f_fast" THEN f_fast(g, x) ELSE f_reference(g, x)

----------------------------------------------------------------------------
(* gost.c: the single-block core; a state s is [n1, n2] *)

\* n2 ^= f_fn(n1 + key[k])
RoundN2(s, k, ky, g, f_fn) ==
    [n1 |-> s.n1, n2 |-> Xor32(s.n2, CallF(f_fn, g, Add32(s.n1, ky[k])))]

\* n1 ^= f_fn(n2 + key[k])
RoundN1(s, k, ky, g, f_fn) ==
    [n2 |-> s.n2, n1 |-> Xor32(s.n1, CallF(f_fn, g, Add32(s.n2, ky[k])))]

\* Fault: the second line assigns, n1 = f_fn(n2 + key[kb]).
TWO_ROUNDS_assigns_n1(s, ka, kb, ky, g, f_fn) ==
    LET a == RoundN2(s, ka, ky, g, f_fn)
    IN  [n2 |-> a.n2, n1 |-> CallF(f_fn, g, Add32(a.n2, ky[kb]))]

\* #define TWO_ROUNDS(ka, kb): n2 ^= f_fn(n1 + key[ka]); n1 ^= f_fn(n2 + key[kb]);
TWO_ROUNDS(s, ka, kb, ky, g, f_fn) == RoundN1(RoundN2(s, ka, ky, g, f_fn), kb, ky, g, f_fn)

\* Fault: the pass stops after key[5].
ForwardPass_three_pairs(s, ky, g, f_fn) ==
    TWO_ROUNDS(TWO_ROUNDS(TWO_ROUNDS(s, 0, 1, ky, g, f_fn),
                          2, 3, ky, g, f_fn),
               4, 5, ky, g, f_fn)

\* key[0], key[1], ..., key[7]
ForwardPass(s, ky, g, f_fn) ==
    TWO_ROUNDS(TWO_ROUNDS(TWO_ROUNDS(TWO_ROUNDS(s, 0, 1, ky, g, f_fn),
                                     2, 3, ky, g, f_fn),
                          4, 5, ky, g, f_fn),
               6, 7, ky, g, f_fn)

\* Fault: the last pass keeps the order of the pairs of the forward passes.
ReversePass_pairs_ascending(s, ky, g, f_fn) ==
    TWO_ROUNDS(TWO_ROUNDS(TWO_ROUNDS(TWO_ROUNDS(s, 1, 0, ky, g, f_fn),
                                     3, 2, ky, g, f_fn),
                          5, 4, ky, g, f_fn),
               7, 6, ky, g, f_fn)

\* key[7], key[6], ..., key[0]
ReversePass(s, ky, g, f_fn) ==
    TWO_ROUNDS(TWO_ROUNDS(TWO_ROUNDS(TWO_ROUNDS(s, 7, 6, ky, g, f_fn),
                                     5, 4, ky, g, f_fn),
                          3, 2, ky, g, f_fn),
               1, 0, ky, g, f_fn)

\* A two-word array, index 0 and 1.
Block(w0, w1) == (0 :> w0) @@ (1 :> w1)

\* F applied to the value of x: x is computed first, then F on that value.
Strict(F(_), x) == [v \in {x} |-> F(v)][x]

\* for (i = from; i < from + n; ++i) s = Body(s, i), evaluated as the first
\* half of the passes followed by the rest.
RECURSIVE For(_, _, _, _)
For(Body(_, _), s, from, n) ==
    IF n = 0 THEN s
    ELSE IF n = 1 THEN Body(s, from)
    ELSE Strict(LAMBDA v : For(Body, v, from + (n \div 2), n - (n \div 2)),
                For(Body, s, from, n \div 2))

\* for (round = 0; round < 3; round++) pass
RECURSIVE Repeat3(_, _, _, _, _, _)
Repeat3(pass, round, s, ky, g, f_fn) ==
    IF round >= 3 THEN s
    ELSE Strict(LAMBDA v : Repeat3(pass, round + 1, v, ky, g, f_fn),
                IF pass = "forward" THEN ForwardPass(s, ky, g, f_fn)
                                    ELSE ReversePass(s, ky, g, f_fn))

\* Fault: the registers are stored in the order they are loaded, n1 first.
_gostcrypt_stores_n1_first(in, ky, g, f_fn) ==
    LET Load(b) == [n1 |-> b[0], n2 |-> b[1]]
        Forward3(s) == Repeat3("forward", 0, s, ky, g, f_fn)
        Reverse1(s) == ReversePass(s, ky, g, f_fn)
        Store(s) == Block(s.n1, s.n2)
    IN  Strict(Store, Strict(Reverse1, Strict(Forward3, Strict(Load, in))))

\* The words out[0], out[1] written by _gostcrypt(in, out, key, f_fn).
_gostcrypt(in, ky, g, f_fn) ==
    LET Load(b) == [n1 |-> b[0], n2 |-> b[1]]
        Forward3(s) == Repeat3("forward", 0, s, ky, g, f_fn)
        Reverse1(s) == ReversePass(s, ky, g, f_fn)
        Store(s) == Block(s.n2, s.n1)
    IN  Strict(Store, Strict(Reverse1, Strict(Forward3, Strict(Load, in))))

\* Fault: decryption walks the key schedule in the order of encryption.
_gostdecrypt_encrypt_order(in, ky, g, f_fn) ==
    LET Load(b) == [n1 |-> b[0], n2 |-> b[1]]
        Forward3(s) == Repeat3("forward", 0, s, ky, g, f_fn)
        Reverse1(s) == ReversePass(s, ky, g, f_fn)
        Store(s) == Block(s.n2, s.n1)
    IN  Strict(Store, Strict(Reverse1, Strict(Forward3, Strict(Load, in))))

\* The words out[0], out[1] written by _gostdecrypt(in, out, key, f_fn).
_gostdecrypt(in, ky, g, f_fn) ==
    LET Load(b) == [n1 |-> b[0], n2 |-> b[1]]
        Forward1(s) == ForwardPass(s, ky, g, f_fn)
        Reverse3(s) == Repeat3("reverse", 0, s, ky, g, f_fn)
        Store(s) == Block(s.n2, s.n1)
    IN  Strict(Store, Strict(Reverse3, Strict(Forward1, Strict(Load, in))))

\* The public single-block operations: each calls kboxinit() first.
gostcrypt_reference(g, in, ky) ==
    Strict(LAMBDA t : _gostcrypt(in, ky, t, "f_reference"), kboxinit(g))
gostdecrypt_reference(g, in, ky) ==
    Strict(LAMBDA t : _gostdecrypt(in, ky, t, "f_reference"), kboxinit(g))

\* Fault: the entry for encryption runs the schedule of decryption.
gostcrypt_runs_decrypt(g, in, ky) ==
    Strict(LAMBDA t : _gostdecrypt(in, ky, t, "f_fast"), kboxinit(g))

gostcrypt(g, in, ky) ==
    Strict(LAMBDA t : _gostcrypt(in, ky, t, "f_fast"), kboxinit(g))

gostdecrypt(g, in, ky) ==
    Strict(LAMBDA t : _gostdecrypt(in, ky, t, "f_fast"), kboxinit(g))

\* The same functions statement by statement on a memory of words, in and out
\* being addresses in it (out may be in): n1 = in[0]; n2 = in[1]; the rounds
\* on the registers; out[0] = n2; out[1] = n1.  decrypt tells which schedule.

\* Fault: the registers are kept in out: out[0] = in[1]; out[1] = in[0]; and
\* the rounds work on out[1], out[0].
BlockAtAddress_through_out(mem, in, out, ky, g, decrypt) ==
    LET m1 == [mem EXCEPT ![out] = mem[in + 1]]
        m2 == [m1 EXCEPT ![out + 1] = m1[in]]
        Rounds_(s) == IF decrypt
                      THEN Repeat3("reverse", 0, ForwardPass(s, ky, g, "f_fast"), ky, g, "f_fast")
                      ELSE ReversePass(Repeat3("forward", 0, s, ky, g, "f_fast"), ky, g, "f_fast")
        Store(s) == [[m2 EXCEPT ![out] = s.n2] EXCEPT ![out + 1] = s.n1]
    IN  Strict(Store, Strict(Rounds_, [n1 |-> m2[out + 1], n2 |-> m2[out]]))

BlockAtAddress(mem, in, out, ky, g, decrypt) ==
    LET Load == [n1 |-> mem[in], n2 |-> mem[in + 1]]
        Rounds_(s) == IF decrypt
                      THEN Repeat3("reverse", 0, ForwardPass(s, ky, g, "f_fast"), ky, g, "f_fast")
                      ELSE ReversePass(Repeat3("forward", 0, s, ky, g, "f_fast"), ky, g, "f_fast")
        Store(s) == [[mem EXCEPT ![out] = s.n2] EXCEPT ![out + 1] = s.n1]
    IN  Strict(Store, Strict(Rounds_, Load))

----------------------------------------------------------------------------
(* gost.c: counter ("OFB") mode and CFB mode.  A buffer is the sequence of  *)
(* its words; block i (from 0) is words 2i+1 and 2i+2.  A call on the blocks *)
(* off .. off+len-1 is the C call with in + 2*off and out + 2*off.  Each     *)
(* operator gives the memory the call leaves: [out, iv].                     *)

One32 == W32(\h00, \h00, \h00, \h01)
\* 0x01010101U and 0x01010104U
CounterC2 == W32(\h01, \h01, \h01, \h01)
CounterC1 == W32(\h01, \h01, \h01, \h04)

\* Fault: the sum is left as the 32-bit addition gives it.
AddWrap_no_increment(t, c) == Add32(t, c)

\* t += c; if (t < c) t++;
AddWrap(t, c) ==
    LET u == Add32(t, c)
    IN  IF Less32(u, c) THEN Add32(u, One32) ELSE u

\* Fault: the block just written takes the place of the counter.
OfbBlock_chains_output(g, in, i, ky, st) ==
    LET temp == Block(AddWrap(st.temp[0], CounterC2), AddWrap(st.temp[1], CounterC1))
        Write(gamma) ==
            [temp |-> Block(Xor32(in[(2 * i) + 1], gamma[0]), Xor32(in[(2 * i) + 2], gamma[1])),
             out |-> [st.out EXCEPT ![(2 * i) + 1] = Xor32(in[(2 * i) + 1], gamma[0]),
                                    ![(2 * i) + 2] = Xor32(in[(2 * i) + 2], gamma[1])]]
    IN  Strict(Write, gostcrypt(g, temp, ky))

\* One pass of the loop of gostofb, on block i; st is [temp, out].
OfbBlock(g, in, i, ky, st) ==
    LET temp == Block(AddWrap(st.temp[0], CounterC2), AddWrap(st.temp[1], CounterC1))
        Write(gamma) ==
            [temp |-> temp,
             out |-> [st.out EXCEPT ![(2 * i) + 1] = Xor32(in[(2 * i) + 1], gamma[0]),
                                    ![(2 * i) + 2] = Xor32(in[(2 * i) + 2], gamma[1])]]
    IN  Strict(Write, gostcrypt(g, temp, ky))

RECURSIVE OfbLoop(_, _, _, _, _, _)

\* Fault: the first word of the block read is folded into the counter.
OfbLoop_counts_on_input(g, in, off, n, ky, st0) ==
    For(LAMBDA st, k :
            OfbBlock(g, in, off + k, ky,
                     [st EXCEPT !.temp = Block(Xor32(@[0], in[(2 * (off + k)) + 1]), @[1])]),
        st0, 0, n)

\* while (len--): the state after n passes from block off.
OfbLoop(g, in, off, n, ky, st0) ==
    IF n = 0 THEN st0
    ELSE Strict(LAMBDA st : OfbBlock(g, in, off + n - 1, ky, st),
                OfbLoop(g, in, off, n - 1, ky, st0))

\* Fault: the advanced counter is written back to the IV.
gostofb_writes_iv(g, in, out, off, len, ivv, ky) ==
    LET Start(t) == [temp |-> gostcrypt(t, ivv, ky), out |-> out]
        Run(t) == LET st == OfbLoop(t, in, off, len, ky, Start(t))
                  IN  [out |-> st.out, iv |-> st.temp]
    IN  Strict(Run, kboxinit(g))

\* iv is const: the counter lives in temp and is dropped on return.
gostofb(g, in, out, off, len, ivv, ky) ==
    LET Start(t) == [temp |-> gostcrypt(t, ivv, ky), out |-> out]
        Run(t) == [out |-> OfbLoop(t, in, off, len, ky, Start(t)).out, iv |-> ivv]
    IN  Strict(Run, kboxinit(g))

\* One pass of the loop of gostcfbencrypt, on block i; st is [iv, out].
\* gostcrypt(iv, iv, key); iv[0] = *out++ ^= iv[0]; iv[1] = *out++ ^= iv[1];
CfbEncBlock(g, i, ky, st) ==
    LET Write(e) ==
            LET c0 == Xor32(st.out[(2 * i) + 1], e[0])
                c1 == Xor32(st.out[(2 * i) + 2], e[1])
            IN  [iv |-> Block(c0, c1),
                 out |-> [st.out EXCEPT ![(2 * i) + 1] = c0, ![(2 * i) + 2] = c1]]
    IN  Strict(Write, gostcrypt(g, st.iv, ky))

RECURSIVE CfbEncLoop(_, _, _, _, _)
CfbEncLoop(g, off, n, ky, st0) ==
    IF n = 0 THEN st0
    ELSE Strict(LAMBDA st : CfbEncBlock(g, off + n - 1, ky, st),
                CfbEncLoop(g, off, n - 1, ky, st0))

\* Fault: the loop works on a copy of the IV and never stores it back.
gostcfbencrypt_keeps_iv(g, in, out, off, len, ivv, ky) ==
    [out |-> CfbEncLoop(g, off, len, ky, [iv |-> ivv, out |-> out]).out, iv |-> ivv]

\* (void)in: the argument in is not read; the loop XORs into what out holds.
gostcfbencrypt(g, in, out, off, len, ivv, ky) ==
    CfbEncLoop(g, off, len, ky, [iv |-> ivv, out |-> out])

\* Fault: the IV takes the word after the XOR, the plaintext, as in encryption.
CfbDecBlock_feeds_plaintext(g, i, ky, st) ==
    CfbEncBlock(g, i, ky, st)

\* One pass of the loop of gostcfbdecrypt, on block i; st is [iv, out].
\* gostcrypt(iv, iv, key); t = *out; *out++ ^= iv[0]; iv[0] = t; ...
CfbDecBlock(g, i, ky, st) ==
    LET Write(e) ==
            [iv |-> Block(st.out[(2 * i) + 1], st.out[(2 * i) + 2]),
             out |-> [st.out EXCEPT ![(2 * i) + 1] = Xor32(@, e[0]),
                                    ![(2 * i) + 2] = Xor32(@, e[1])]]
    IN  Strict(Write, gostcrypt(g, st.iv, ky))

RECURSIVE CfbDecLoop(_, _, _, _, _)

\* Fault: the ciphertext is XORed into the IV, iv[0] ^= t, not stored in it.
CfbDecLoop_folds_iv(g, off, n, ky, st0) ==
    For(LAMBDA st, k :
            LET r == CfbDecBlock(g, off + k, ky, st)
            IN  [r EXCEPT !.iv = Block(Xor32(@[0], st.iv[0]), Xor32(@[1], st.iv[1]))],
        st0, 0, n)

\* while (len--): the state after n passes from block off.
CfbDecLoop(g, off, n, ky, st0) ==
    IF n = 0 THEN st0
    ELSE Strict(LAMBDA st : CfbDecBlock(g, off + n - 1, ky, st),
                CfbDecLoop(g, off, n - 1, ky, st0))

\* Fault: the loop works on a copy of the IV and never stores it back.
gostcfbdecrypt_keeps_iv(g, in, out, off, len, ivv, ky) ==
    [out |-> CfbDecLoop(g, off, len, ky, [iv |-> ivv, out |-> out]).out, iv |-> ivv]

\* (void)in: the argument in is not read; the loop works on what out holds.
gostcfbdecrypt(g, in, out, off, len, ivv, ky) ==
    CfbDecLoop(g, off, len, ky, [iv |-> ivv, out |-> out])

----------------------------------------------------------------------------
(* gost.c: the MAC.  The accumulator s is [n1, n2, in], in being the number  *)
(* of words the pointer in has moved past.                                   *)

\* Fault: one pass through key[0..7] where the code has two.
MacBlock_one_pass(g, in, ky, s) ==
    LET Load == [n1 |-> Xor32(s.n1, in[s.in + 1]), n2 |-> in[s.in + 2]]
        Pass(v) == ForwardPass(v, ky, g, "f_fast")
        Advance(v) == [n1 |-> v.n1, n2 |-> v.n2, in |-> s.in + 2]
    IN  Strict(Advance, Strict(Pass, Load))

\* One pass of the loop of gostmac: n1 ^= *in++; n2 = *in++; then the eight
\* lines with key[0] .. key[7], twice.
MacBlock(g, in, ky, s) ==
    LET Load == [n1 |-> Xor32(s.n1, in[s.in + 1]), n2 |-> in[s.in + 2]]
        Pass(v) == ForwardPass(v, ky, g, "f_fast")
        Advance(v) == [n1 |-> v.n1, n2 |-> v.n2, in |-> s.in + 2]
    IN  Strict(Advance, Strict(Pass, Strict(Pass, Load)))

RECURSIVE MacLoop(_, _, _, _, _)

\* Fault: n2 ^= *in++, the second word is folded into the accumulator too.
MacLoop_folds_second_word(g, in, n, ky, s0) ==
    For(LAMBDA s, k : MacBlock(g, [in EXCEPT ![s.in + 2] = Xor32(@, s.n2)], ky, s), s0, 0, n)

\* while (len--): the accumulator after n passes.
MacLoop(g, in, n, ky, s0) ==
    IF n = 0 THEN s0
    ELSE Strict(LAMBDA s : MacBlock(g, in, ky, s), MacLoop(g, in, n - 1, ky, s0))

\* Fault: the loop tests len after the pass, do { ... } while (--len > 0).
gostmac_tests_after(g, in, len, ky) ==
    LET Run(t) == MacLoop(t, in, IF len = 0 THEN 1 ELSE len, ky,
                          [n1 |-> Zero32, n2 |-> Zero32, in |-> 0])
        Store(s) == [out |-> Block(s.n1, s.n2), in |-> s.in]
    IN  Strict(Store, Strict(Run, kboxinit(g)))

\* kboxinit(); n1 = 0; n2 = 0; the loop; out[0] = n1; out[1] = n2.  The result
\* is what the call leaves in out, and how far it has read in.
gostmac(g, in, len, ky) ==
    LET Run(t) == MacLoop(t, in, len, ky, [n1 |-> Zero32, n2 |-> Zero32, in |-> 0])
        Store(s) == [out |-> Block(s.n1, s.n2), in |-> s.in]
    IN  Strict(Store, Strict(Run, kboxinit(g)))

----------------------------------------------------------------------------
(* gost.c: the 4-lane batch engine.  A uint32x4_t is the tuple of its four  *)
(* lanes, lane 0 first.  An array word32 [][2] is the sequence of its       *)
(* blocks, block i (from 0) at index i + 1.                                 *)

vdupq_n_u32(w) == <<w, w, w, w>>
vaddq_u32(a, b) ==
    <<Add32(a[1], b[1]), Add32(a[2], b[2]), Add32(a[3], b[3]), Add32(a[4], b[4])>>
veorq_u32(a, b) ==
    <<Xor32(a[1], b[1]), Xor32(a[2], b[2]), Xor32(a[3], b[3]), Xor32(a[4], b[4])>>

\* vst1q_u32(tmp, sum); tmp[j] = f_fast(tmp[j]) for j = 0..3; fvec = vld1q_u32(tmp)
FLanes(g, sum) ==
    <<f_fast(g, sum[1]), f_fast(g, sum[2]), f_fast(g, sum[3]), f_fast(g, sum[4])>>

\* n2 = veorq_u32(n2, fvec) with fvec from n1 + key[k]; s is [n1, n2], two vectors.
NeonRoundN2(s, k, ky, g) ==
    [n1 |-> s.n1,
     n2 |-> veorq_u32(s.n2, FLanes(g, vaddq_u32(s.n1, vdupq_n_u32(ky[k]))))]

\* n1 = veorq_u32(n1, fvec) with fvec from n2 + key[k]
NeonRoundN1(s, k, ky, g) ==
    [n2 |-> s.n2,
     n1 |-> veorq_u32(s.n1, FLanes(g, vaddq_u32(s.n2, vdupq_n_u32(ky[k]))))]

NEON_TWO_ROUNDS(s, ka, kb, ky, g) == NeonRoundN1(NeonRoundN2(s, ka, ky, g), kb, ky, g)

\* NEON_TWO_ROUNDS(0, 1); NEON_TWO_ROUNDS(2, 3); NEON_TWO_ROUNDS(4, 5); NEON_TWO_ROUNDS(6, 7);
NeonForwardPass(s, ky, g) ==
    NEON_TWO_ROUNDS(NEON_TWO_ROUNDS(NEON_TWO_ROUNDS(NEON_TWO_ROUNDS(s, 0, 1, ky, g),
                                                    2, 3, ky, g),
                                    4, 5, ky, g),
                    6, 7, ky, g)

\* for (int round = 0; round < 3; round++) the forward pass
RECURSIVE NeonRepeat3(_, _, _, _)
NeonRepeat3(round, s, ky, g) ==
    IF round >= 3 THEN s
    ELSE Strict(LAMBDA v : NeonRepeat3(round + 1, v, ky, g), NeonForwardPass(s, ky, g))

\* The reverse pass, written out round by round: key[7], key[6], ..., key[0].
NeonReversePass(s, ky, g) ==
    NeonRoundN1(NeonRoundN2(
      NeonRoundN1(NeonRoundN2(
        NeonRoundN1(NeonRoundN2(
          NeonRoundN1(NeonRoundN2(s, 7, ky, g), 6, ky, g),
                                5, ky, g), 4, ky, g),
                              3, ky, g), 2, ky, g),
                            1, ky, g), 0, ky, g)

\* out[offset + j][0] = vgetq_lane_u32(v, j) for j = 0..3
_store_block(v, out, offset) ==
    [k \in DOMAIN out |->
        IF k - 1 >= offset /\ k - 1 <= offset + 3
        THEN Block(v[k - offset], out[k][1])
        ELSE out[k]]

\* out[offset + j][1] = vgetq_lane_u32(v, j) for j = 0..3
_store_block_n2(v, out, offset) ==
    [k \in DOMAIN out |->
        IF k - 1 >= offset /\ k - 1 <= offset + 3
        THEN Block(out[k][0], v[k - offset])
        ELSE out[k]]

\* One pass of the batch loop at i: the blocks i .. i+3, one per lane.
NeonBatch(g, in, i, ky, out) ==
    LET Load(b) ==
            [n1 |-> <<b[i + 1][0], b[i + 2][0], b[i + 3][0], b[i + 4][0]>>,
             n2 |-> <<b[i + 1][1], b[i + 2][1], b[i + 3][1], b[i + 4][1]>>]
        Forward3(s) == NeonRepeat3(0, s, ky, g)
        Reverse1(s) == NeonReversePass(s, ky, g)
        Store(s) == _store_block_n2(s.n1, _store_block(s.n2, out, i), i) @@ <<>>
    IN  Strict(Store, Strict(Reverse1, Strict(Forward3, Strict(Load, in))))

\* for (; i + 3 < blocks; i += 4): the index and the array the loop ends with.
RECURSIVE NeonLoop(_, _, _, _, _, _)
NeonLoop(g, in, i, blocks, ky, out) ==
    IF i + 3 < blocks
    THEN Strict(LAMBDA o : NeonLoop(g, in, i + 4, blocks, ky, o), NeonBatch(g, in, i, ky, out))
    ELSE [i |-> i, out |-> out]

\* for (; i < blocks; i++) gostcrypt(&in[i][0], &out[i][0], key);
RECURSIVE ScalarLoop(_, _, _, _, _, _)
ScalarLoop(g, in, i, blocks, ky, out) ==
    IF i < blocks
    THEN Strict(LAMBDA o : ScalarLoop(g, in, i + 1, blocks, ky, o),
                [out EXCEPT ![i + 1] = gostcrypt(g, in[i + 1], ky)])
    ELSE out

\* Fault: the blocks left over after the last full batch are not processed.
gostcrypt_neon_blocks_no_remainder(g, neon, in, out, blocks, ky) ==
    LET Run(t) ==
            IF neon
            THEN NeonLoop(t, in, 0, blocks, ky, out).out
            ELSE ScalarLoop(t, in, 0, blocks, ky, out)
    IN  Strict(Run, kboxinit(g))

\* The array out after gostcrypt_neon_blocks(in, out, blocks, key); neon tells
\* whether the build defines __ARM_NEON__.
gostcrypt_neon_blocks(g, neon, in, out, blocks, ky) ==
    LET Run(t) ==
            IF neon
            THEN Strict(LAMBDA st : ScalarLoop(t, in, st.i, blocks, ky, st.out),
                        NeonLoop(t, in, 0, blocks, ky, out))
            ELSE ScalarLoop(t, in, 0, blocks, ky, out)
    IN  Strict(Run, kboxinit(g))

----------------------------------------------------------------------------
(* Inputs *)

\* Longest run of encryptions the callers below make before decrypting.
MaxIter == 3

ZeroKey == Table([i \in 0..7 |-> Zero32])
\* key[i] = 0x11111111u * (i + 1), tests.c test_encrypt_decrypt
Key11 == Table([i \in 0..7 |-> Times32(i + 1, W32(\h11, \h11, \h11, \h11))])
\* key[i] = 0x01020304u * (i + 1), tests.c test_neon_batch_agreement, benchmark.c main
Key01 == Table([i \in 0..7 |-> Times32(i + 1, W32(\h01, \h02, \h03, \h04))])
\* A key whose additions carry out of every byte and out of the word.
KeyFF == Table([i \in 0..7 |-> IF i % 2 = 0 THEN W32(\hFF, \hFF, \hFF, \hFF)
                                            ELSE W32(\h80, \h00, \hFF, \h01)])
Keys == {ZeroKey, Key11, Key01, KeyFF}

ZeroBlock == Block(Zero32, Zero32)
Blocks ==
    {ZeroBlock,
     Block(W32(\h12, \h34, \h56, \h78), W32(\h9A, \hBC, \hDE, \hF0)),
     Block(W32(\hFF, \hFF, \hFF, \hFF), W32(\hFF, \hFF, \hFF, \hFF)),
     Block(W32(\hA5, \hA5, \hA5, \hA5), W32(\h5A, \h5A, \h5A, \h5A)),
     Block(W32(\h80, \h00, \h00, \h00), W32(\h00, \h00, \h00, \h01))}

NoIv == ZeroBlock

----------------------------------------------------------------------------
(* The single-block callers: tests.c test_known_vector, test_encrypt_decrypt  *)
(* and the TEST driver, which encrypts plain into cipher, encrypts cipher in  *)
(* place, then decrypts cipher in place.  inbuf is plain, outbuf is cipher.   *)

InitBlock ==
    /\ InitGlobals
    /\ key \in Keys
    /\ inbuf \in Blocks
    /\ outbuf = ZeroBlock
    /\ iv = NoIv
    /\ pc = "block"
    /\ aux = [nenc |-> 0, ndec |-> 0, fns |-> {}]

\* kboxinit() called by the caller itself.
Kboxinit ==
    /\ SetGlobals(kboxinit(Globals))
    /\ UNCHANGED <<key, iv, inbuf, outbuf, pc, aux>>

Source == IF aux.nenc = 0 THEN inbuf ELSE outbuf

Encrypted(fn) ==
    /\ SetGlobals(kboxinit(Globals))
    /\ aux' = [aux EXCEPT !.nenc = @ + 1, !.fns = @ \cup {fn}]
    /\ UNCHANGED <<key, iv, inbuf, pc>>

Decrypted(fn) ==
    /\ SetGlobals(kboxinit(Globals))
    /\ aux' = [aux EXCEPT !.ndec = @ + 1, !.fns = @ \cup {fn}]
    /\ UNCHANGED <<key, iv, inbuf, pc>>

Gostcrypt ==
    /\ pc = "block" /\ aux.ndec = 0 /\ aux.nenc < MaxIter
    /\ outbuf' = gostcrypt(Globals, Source, key)
    /\ Encrypted("gostcrypt")

GostcryptReference ==
    /\ pc = "block" /\ aux.ndec = 0 /\ aux.nenc < MaxIter
    /\ outbuf' = gostcrypt_reference(Globals, Source, key)
    /\ Encrypted("gostcrypt_reference")

Gostdecrypt ==
    /\ pc = "block" /\ aux.ndec < aux.nenc
    /\ outbuf' = gostdecrypt(Globals, outbuf, key)
    /\ Decrypted("gostdecrypt")

GostdecryptReference ==
    /\ pc = "block" /\ aux.ndec < aux.nenc
    /\ outbuf' = gostdecrypt_reference(Globals, outbuf, key)
    /\ Decrypted("gostdecrypt_reference")

NextBlock ==
    \/ Kboxinit
    \/ Gostcrypt
    \/ GostcryptReference
    \/ Gostdecrypt
    \/ GostdecryptReference

SpecBlock == InitBlock /\ [][NextBlock]_vars

----------------------------------------------------------------------------
(* Claims about the single-block core *)

\* C1: decrypting with gostdecrypt as many times as gostcrypt has encrypted,
\* under the same key, gives back the original block (n = 1 is the plain
\* round trip gostdecrypt(gostcrypt(b, k), k) = b).
C1_RoundTrip ==
    (pc = "block" /\ aux.nenc >= 1 /\ aux.ndec = aux.nenc
        /\ aux.fns = {"gostcrypt", "gostdecrypt"})
    => outbuf = inbuf

\* An iterated round trip has completed: n = MaxIter encryptions, n decryptions.
C1_Witness ==
    /\ pc = "block"
    /\ aux.nenc = MaxIter
    /\ aux.ndec = aux.nenc
    /\ aux.fns = {"gostcrypt", "gostdecrypt"}
    /\ outbuf = inbuf
    /\ key = Key11
    /\ inbuf # ZeroBlock

\* The registers after the rounds 0 .. n-1 counted one by one: round r uses
\* key word r mod 8 while r < 24 and 31 - r from then on; an even round is
\* n2 ^= f(n1 + K), an odd one n1 ^= f(n2 + K).
RoundKeyIndex(r) == IF r < 24 THEN r % 8 ELSE 31 - r
RoundByRound(g, in, ky, n) ==
    LET Round(s, r) ==
            IF r % 2 = 0
            THEN [n1 |-> s.n1,
                  n2 |-> Xor32(s.n2, f_fast(g, Add32(s.n1, ky[RoundKeyIndex(r)])))]
            ELSE [n2 |-> s.n2,
                  n1 |-> Xor32(s.n1, f_fast(g, Add32(s.n2, ky[RoundKeyIndex(r)])))]
    IN  For(Round, [n1 |-> in[0], n2 |-> in[1]], 0, n)
ThirtyTwoRounds(g, in, ky) ==
    Strict(LAMBDA s : Block(s.n2, s.n1), RoundByRound(g, in, ky, 32))

\* C18: gostcrypt is 32 rounds, round r with key word r mod 8 for r < 24 and
\* 31 - r for r >= 24, even rounds n2 ^= f(n1 + K) and odd rounds
\* n1 ^= f(n2 + K) from n1 = in[0], n2 = in[1], and it stores out[0] = n2,
\* out[1] = n1; each further gostcrypt of the result is 32 such rounds again.
C18_ThirtyTwoRounds ==
    (pc = "block" /\ aux.nenc >= 1 /\ aux.ndec = 0 /\ aux.fns = {"gostcrypt"})
    => outbuf = For(LAMBDA b, i : ThirtyTwoRounds(Globals, b, key), inbuf, 0, aux.nenc)

\* One gostcrypt under a key of eight different words: the block written is
\* the 32 rounds' (n2, n1), which is neither (n1, n2) nor what 30 or 34
\* rounds of the same schedule leave.
C18_Witness ==
    /\ pc = "block" /\ aux.nenc = 1 /\ aux.ndec = 0 /\ aux.fns = {"gostcrypt"}
    /\ key = Key01
    /\ inbuf = Block(W32(\h12, \h34, \h56, \h78), W32(\h9A, \hBC, \hDE, \hF0))
    /\ outbuf = ThirtyTwoRounds(Globals, inbuf, key)
    /\ outbuf # Strict(LAMBDA s : Block(s.n1, s.n2), RoundByRound(Globals, inbuf, key, 32))
    /\ outbuf # Strict(LAMBDA s : Block(s.n2, s.n1), RoundByRound(Globals, inbuf, key, 30))

\* The TEST driver of tests.c on its memory: plain at words 0, 1 and cipher
\* at words 2, 3.  It calls gostcrypt(plain, cipher, key), then gostcrypt and
\* gostdecrypt with cipher as both arguments; a caller may also work on plain
\* in place.  inbuf is the memory.
PlainAt == 0
CipherAt == 2
Pointers == {<<PlainAt, CipherAt>>, <<CipherAt, CipherAt>>, <<PlainAt, PlainAt>>}
\* Calls followed: one fewer than the encryptions of the round-trip caller.
AliasCalls == MaxIter - 1

InitAlias ==
    /\ InitGlobals
    /\ key \in Keys
    /\ \E b \in Blocks :
         inbuf = [a \in 0..3 |-> IF a < 2 THEN b[a] ELSE Times32(a, W32(\hDE, \hAD, \hBE, \hEF))]
    /\ outbuf = ZeroBlock
    /\ iv = NoIv
    /\ pc = "alias"
    /\ aux = [calls |-> 0, op |-> "none", in |-> 0, out |-> 0, before |-> <<>>]

CallAt(op, p) ==
    /\ pc = "alias" /\ aux.calls < AliasCalls
    /\ inbuf' = BlockAtAddress(inbuf, p[1], p[2], key, kboxinit(Globals), op = "gostdecrypt")
    /\ SetGlobals(kboxinit(Globals))
    /\ aux' = [calls |-> aux.calls + 1, op |-> op, in |-> p[1], out |-> p[2], before |-> inbuf]
    /\ UNCHANGED <<key, iv, outbuf, pc>>

GostcryptAt == \E p \in Pointers : CallAt("gostcrypt", p)
GostdecryptAt == \E p \in Pointers : CallAt("gostdecrypt", p)

NextAlias ==
    \/ GostcryptAt
    \/ GostdecryptAt

SpecAlias == InitAlias /\ [][NextAlias]_vars

\* The buffer that does not overlap the one at address a.
DisjointFrom(a) == IF a = PlainAt THEN CipherAt ELSE PlainAt

\* C26: gostcrypt and gostdecrypt called with out = in leave in that buffer
\* the two words the same call writes into a buffer apart from in, and touch
\* no other word.
C26_InPlaceIsSafe ==
    (pc = "alias" /\ aux.calls >= 1 /\ aux.in = aux.out)
    => LET d == DisjointFrom(aux.in)
           apart == BlockAtAddress(aux.before, aux.in, d, key, Globals, aux.op = "gostdecrypt")
       IN  /\ inbuf[aux.out] = apart[d]
           /\ inbuf[aux.out + 1] = apart[d + 1]
           /\ \A a \in {d, d + 1} : inbuf[a] = aux.before[a]

\* The driver's second call: gostcrypt(cipher, cipher, key) on a block whose
\* two words differ, giving a block that differs from it in both words.
C26_Witness ==
    /\ pc = "alias" /\ aux.calls = 2 /\ aux.op = "gostcrypt"
    /\ aux.in = CipherAt /\ aux.out = CipherAt
    /\ key = Key01
    /\ aux.before[CipherAt] # aux.before[CipherAt + 1]
    /\ aux.before[CipherAt] # Times32(CipherAt, W32(\hDE, \hAD, \hBE, \hEF))
    /\ inbuf[CipherAt] # aux.before[CipherAt]
    /\ inbuf[CipherAt + 1] # aux.before[CipherAt + 1]
    /\ inbuf[CipherAt] = gostcrypt(Globals, Block(aux.before[CipherAt], aux.before[CipherAt + 1]), key)[0]

\* A caller that decrypts first: gostdecrypt up to MaxIter times, the first
\* time from in to out and then on out in place, and gostcrypt on out as many
\* times afterwards.
InitInverse ==
    /\ InitGlobals
    /\ key \in Keys
    /\ inbuf \in Blocks
    /\ outbuf = ZeroBlock
    /\ iv = NoIv
    /\ pc = "inverse"
    /\ aux = [nenc |-> 0, ndec |-> 0]

GostdecryptFirst ==
    /\ pc = "inverse" /\ aux.nenc = 0 /\ aux.ndec < MaxIter
    /\ outbuf' = gostdecrypt(Globals, IF aux.ndec = 0 THEN inbuf ELSE outbuf, key)
    /\ SetGlobals(kboxinit(Globals))
    /\ aux' = [aux EXCEPT !.ndec = @ + 1]
    /\ UNCHANGED <<key, iv, inbuf, pc>>

GostcryptBack ==
    /\ pc = "inverse" /\ aux.nenc < aux.ndec
    /\ outbuf' = gostcrypt(Globals, outbuf, key)
    /\ SetGlobals(kboxinit(Globals))
    /\ aux' = [aux EXCEPT !.nenc = @ + 1]
    /\ UNCHANGED <<key, iv, inbuf, pc>>

NextInverse ==
    \/ Kboxinit
    \/ GostdecryptFirst
    \/ GostcryptBack

SpecInverse == InitInverse /\ [][NextInverse]_vars

\* C24: encrypting with gostcrypt as many times as gostdecrypt has decrypted,
\* under the same key, gives back the block (n = 1: gostcrypt(gostdecrypt(b,
\* k), k) = b), so every block is the encryption of some block; and
\* different blocks have different encryptions.
C24_EncryptInvertsDecrypt ==
    (pc = "inverse" /\ aux.ndec >= 1 /\ aux.nenc = aux.ndec)
    => /\ outbuf = inbuf
       /\ \A b \in Blocks \ {inbuf} :
             gostcrypt(Globals, b, key) # gostcrypt(Globals, inbuf, key)

\* One decryption and one encryption of a non-zero block under a key of
\* eight different words; the decryption differs from what gostcrypt gives.
C24_Witness ==
    /\ pc = "inverse" /\ aux.ndec = 1 /\ aux.nenc = 1
    /\ key = Key01
    /\ inbuf = Block(W32(\h12, \h34, \h56, \h78), W32(\h9A, \hBC, \hDE, \hF0))
    /\ outbuf = inbuf
    /\ gostdecrypt(Globals, inbuf, key) # gostcrypt(Globals, inbuf, key)
    /\ gostdecrypt(Globals, inbuf, key) # inbuf

\* 0xE72B17D7, 0x02F122C0
KnownVector == Block(W32(\hE7, \h2B, \h17, \hD7), W32(\h02, \hF1, \h22, \hC0))

\* C3: the all-zero block encrypted once under the all-zero key, by gostcrypt
\* or by gostcrypt_reference, is (0xE72B17D7, 0x02F122C0).
C3_KnownVector ==
    (pc = "block" /\ key = ZeroKey /\ inbuf = ZeroBlock /\ aux.nenc = 1 /\ aux.ndec = 0)
    => outbuf = KnownVector

C3_Witness ==
    /\ pc = "block"
    /\ key = ZeroKey
    /\ inbuf = ZeroBlock
    /\ aux.nenc = 1
    /\ aux.ndec = 0
    /\ aux.fns = {"gostcrypt"}
    /\ outbuf = KnownVector

----------------------------------------------------------------------------
(* The round function on its own.  f_reference and f_fast are static: they   *)
(* run only inside the public operations, each of which has called kboxinit  *)
(* first, so a call is modelled only once kbox_ready is set.                 *)

\* Every value of one byte of x, the other three taken from a fixed word.
OneByteVaried(base) ==
    {W32(b, base[3], base[2], base[1]) : b \in 0..255}
      \cup {W32(base[4], b, base[2], base[1]) : b \in 0..255}
      \cup {W32(base[4], base[3], b, base[1]) : b \in 0..255}
      \cup {W32(base[4], base[3], base[2], b) : b \in 0..255}

FInputs ==
    OneByteVaried(Zero32) \cup OneByteVaried(W32(\hFF, \hFF, \hFF, \hFF))
      \cup OneByteVaried(W32(\h12, \h34, \h56, \h78))

InitF ==
    /\ InitGlobals
    /\ key = ZeroKey
    /\ inbuf = ZeroBlock
    /\ outbuf = ZeroBlock
    /\ iv = NoIv
    /\ pc = "f"
    /\ aux \in [x : FInputs, fast : {Zero32}, ref : {Zero32}, called : {{}}]

CallFFast ==
    /\ pc = "f" /\ kbox_ready # 0 /\ "f_fast" \notin aux.called
    /\ aux' = [aux EXCEPT !.fast = f_fast(Globals, aux.x), !.called = @ \cup {"f_fast"}]
    /\ UNCHANGED <<gvars, key, iv, inbuf, outbuf, pc>>

CallFReference ==
    /\ pc = "f" /\ kbox_ready # 0 /\ "f_reference" \notin aux.called
    /\ aux' = [aux EXCEPT !.ref = f_reference(Globals, aux.x),
                          !.called = @ \cup {"f_reference"}]
    /\ UNCHANGED <<gvars, key, iv, inbuf, outbuf, pc>>

NextF ==
    \/ Kboxinit
    \/ CallFFast
    \/ CallFReference

SpecF == InitF /\ [][NextF]_vars

\* C2: once kboxinit has run, f_fast(x) and f_reference(x) are the same word.
C2_FastIsReference ==
    (pc = "f" /\ aux.called = {"f_fast", "f_reference"}) => aux.fast = aux.ref

\* Both have been computed on an x with four different non-zero bytes, and the
\* common result is not the word the zeroed tables would give.
C2_Witness ==
    /\ pc = "f"
    /\ aux.called = {"f_fast", "f_reference"}
    /\ aux.x = W32(\h12, \h34, \h56, \h78)
    /\ aux.fast = aux.ref
    /\ aux.fast # Zero32

----------------------------------------------------------------------------
(* The callers of the modes: tests.c test_modes_and_mac works in place on    *)
(* one buffer, benchmark.c run_mode_samples passes a second, uninitialised   *)
(* buffer as out.  A caller may cover its n blocks in several calls, each    *)
(* continuing at the block the last one stopped at, with the same IV buffer. *)

\* Blocks in a buffer, and most calls a caller makes over it in one pass.
MaxBlocks == 2
MaxCalls == 2

\* 0x11223344, 0x55667788, 0x99AABBCC, ... and 0xDEADBEEF, 0xBD5B7DDE, ...
InputWords == [k \in 1..(2 * MaxBlocks) |->
                 Add32(W32(\h11, \h22, \h33, \h44), Times32(k - 1, W32(\h44, \h44, \h44, \h44)))]
ZeroWordsBuf == [k \in 1..(2 * MaxBlocks) |-> Zero32]
StaleWords == [k \in 1..(2 * MaxBlocks) |-> Times32(k, W32(\hDE, \hAD, \hBE, \hEF))]

\* The key and IV of test_modes_and_mac, and those of benchmark.c.
ModeKeyIvs ==
    {<<ZeroKey, Block(Zero32, One32)>>,
     <<Key01, Block(W32(\h0F, \h1E, \h2D, \h3C), W32(\h4B, \h5A, \h69, \h78))>>}

BlockAt(buf, i) == Block(buf[(2 * i) + 1], buf[(2 * i) + 2])
XorBlock(a, b) == Block(Xor32(a[0], b[0]), Xor32(a[1], b[1]))

\* alias: in and out are the same buffer.  Otherwise out is a buffer of its
\* own whose contents before the call are whatever the memory held.
InitModes ==
    /\ InitGlobals
    /\ pc = "modes"
    /\ \E ki \in ModeKeyIvs, alias \in BOOLEAN, mode \in {"ofb", "cfb"} :
         /\ key = ki[1]
         /\ iv = ki[2]
         /\ inbuf \in {InputWords, ZeroWordsBuf}
         /\ outbuf \in (IF alias THEN {inbuf} ELSE {ZeroWordsBuf, StaleWords})
         /\ aux = [mode |-> mode, alias |-> alias, p |-> inbuf, q |-> outbuf,
                   iv0 |-> iv, phase |-> "enc", pos |-> 0, segs |-> <<>>,
                   before |-> [out |-> outbuf, iv |-> iv]]

\* The in argument: the input buffer, or the output buffer once it is worked on in place.
InArg == IF aux.phase = "enc" THEN inbuf ELSE outbuf

\* What a call on len blocks leaves: r in out and iv, gg in the globals.
ModeCall(r, gg, len) ==
    /\ SetGlobals(gg)
    /\ outbuf' = r.out
    /\ inbuf' = IF aux.alias THEN r.out ELSE inbuf
    /\ iv' = r.iv
    /\ aux' = [aux EXCEPT !.pos = @ + len, !.segs = Append(@, len),
                          !.before = [out |-> outbuf, iv |-> iv]]
    /\ UNCHANGED <<key, pc>>

\* gostofb runs gostcrypt, hence kboxinit, even when len is 0.
Gostofb ==
    /\ pc = "modes" /\ aux.mode = "ofb" /\ Len(aux.segs) < MaxCalls
    /\ \E len \in 0..(MaxBlocks - aux.pos) :
         \E gg \in {kboxinit(Globals)} :
           \E r \in {gostofb(gg, InArg, outbuf, aux.pos, len, iv, key)} :
             ModeCall(r, gg, len)

\* With len = 0 the CFB loops run no gostcrypt and kboxinit is not reached.
Gostcfbencrypt ==
    /\ pc = "modes" /\ aux.mode = "cfb" /\ aux.phase = "enc" /\ Len(aux.segs) < MaxCalls
    /\ \E len \in 0..(MaxBlocks - aux.pos) :
         \E gg \in {IF len = 0 THEN Globals ELSE kboxinit(Globals)} :
           \E r \in {gostcfbencrypt(gg, InArg, outbuf, aux.pos, len, iv, key)} :
             ModeCall(r, gg, len)

Gostcfbdecrypt ==
    /\ pc = "modes" /\ aux.mode = "cfb" /\ aux.phase = "dec" /\ Len(aux.segs) < MaxCalls
    /\ \E len \in 0..(MaxBlocks - aux.pos) :
         \E gg \in {IF len = 0 THEN Globals ELSE kboxinit(Globals)} :
           \E r \in {gostcfbdecrypt(gg, InArg, outbuf, aux.pos, len, iv, key)} :
             ModeCall(r, gg, len)

\* iv[0] = 0x0; iv[1] = 0x1; after one call over the whole buffer the caller
\* sets the IV buffer back, and the second pass works on the output in place.
RestoreIv ==
    /\ pc = "modes" /\ aux.phase = "enc" /\ aux.segs = <<MaxBlocks>>
    /\ iv' = aux.iv0
    /\ aux' = [aux EXCEPT !.phase = "dec", !.pos = 0, !.segs = <<>>,
                          !.before = [out |-> outbuf, iv |-> aux.iv0]]
    /\ UNCHANGED <<gvars, key, inbuf, outbuf, pc>>

NextModes ==
    \/ Gostofb
    \/ Gostcfbencrypt
    \/ Gostcfbdecrypt
    \/ RestoreIv

SpecModes == InitModes /\ [][NextModes]_vars

----------------------------------------------------------------------------
(* Claims about the modes *)

\* The memory one call over the first n blocks leaves, from the buffers and IV
\* the caller started with.
OneOfbCall(n) == gostofb(kboxinit(Globals), aux.p, aux.q, 0, n, aux.iv0, key)
OneCfbCall(n) == gostcfbencrypt(kboxinit(Globals), aux.p, aux.q, 0, n, aux.iv0, key)

\* The place of block i within the call that covered it.
RECURSIVE IndexInCall(_, _)
IndexInCall(segs, i) ==
    IF i < Head(segs) THEN i ELSE IndexInCall(Tail(segs), i - Head(segs))

\* C7: gostcfbencrypt in place on a buffer of at least one block, then
\* gostcfbdecrypt in place on the result from a fresh copy of the same IV,
\* leaves the buffer as it was before the encryption.
C7_CfbRoundTrip ==
    (pc = "modes" /\ aux.mode = "cfb" /\ aux.alias /\ aux.phase = "dec"
        /\ aux.pos = MaxBlocks)
    => outbuf = aux.p

\* Both passes were one call each, and the ciphertext in between differed
\* from the plaintext in its last block.
C7_Witness ==
    /\ pc = "modes" /\ aux.mode = "cfb" /\ aux.alias /\ aux.phase = "dec"
    /\ aux.segs = <<MaxBlocks>>
    /\ outbuf = aux.p
    /\ aux.p = InputWords
    /\ key = Key01
    /\ iv # aux.iv0
    /\ BlockAt(aux.p, MaxBlocks - 1) # iv

\* C8: after gostcfbencrypt(in, out, len, iv, key), whatever buffers in and out
\* are, block i of out is block i of in XOR gostcrypt(c), c being the IV for
\* i = 0 and block i-1 of out otherwise.
C8_CfbEncryptsItsInput ==
    (pc = "modes" /\ aux.mode = "cfb" /\ aux.phase = "enc" /\ Len(aux.segs) = 1)
    => \A i \in 0..(aux.pos - 1) :
          BlockAt(outbuf, i) =
              XorBlock(BlockAt(aux.p, i),
                       gostcrypt(Globals, IF i = 0 THEN aux.iv0 ELSE BlockAt(outbuf, i - 1), key))

\* C9 as stated: gostofb on the first a blocks and then, with the same IV
\* buffer, on the following b blocks gives the output of one call on a+b blocks.
C9_OfbResumes ==
    (pc = "modes" /\ aux.mode = "ofb" /\ aux.phase = "enc" /\ aux.segs # <<>>)
    => \A i \in 0..(aux.pos - 1) : BlockAt(outbuf, i) = BlockAt(OneOfbCall(aux.pos).out, i)

\* C9 amended: gostofb leaves the IV buffer as it was, so every call starts
\* the key stream again: block j of a call is XORed with what one call from the
\* start XORs block j with, wherever in the buffer the call began.
C9_OfbRestarts ==
    (pc = "modes" /\ aux.mode = "ofb" /\ aux.phase = "enc" /\ aux.segs # <<>>)
    => /\ iv = aux.iv0
       /\ LET one == OneOfbCall(aux.pos).out
          IN  \A i \in 0..(aux.pos - 1) :
                 XorBlock(BlockAt(outbuf, i), BlockAt(aux.p, i)) =
                     XorBlock(BlockAt(one, IndexInCall(aux.segs, i)),
                              BlockAt(aux.p, IndexInCall(aux.segs, i)))

\* Two calls of at least one block each: the second call's first block got the
\* key stream of block 0, not that of the block it continues from.
C9_Witness ==
    /\ pc = "modes" /\ aux.mode = "ofb" /\ aux.phase = "enc"
    /\ Len(aux.segs) = 2 /\ aux.segs[1] >= 1 /\ aux.segs[2] >= 1
    /\ iv = aux.iv0
    /\ key = Key01
    /\ BlockAt(outbuf, aux.segs[1]) # BlockAt(OneOfbCall(aux.pos).out, aux.segs[1])

\* C10: gostcfbencrypt in place on the first a blocks and then, with the same
\* IV buffer, on the following b blocks leaves the ciphertext and the IV that
\* one call on a+b blocks leaves; a call with len = 0 changes neither the IV
\* nor the buffer.
C10_CfbResumes ==
    (pc = "modes" /\ aux.mode = "cfb" /\ aux.phase = "enc" /\ aux.alias /\ aux.segs # <<>>)
    => /\ [out |-> outbuf, iv |-> iv] = OneCfbCall(aux.pos)
       /\ aux.segs[Len(aux.segs)] = 0 => (iv = aux.before.iv /\ outbuf = aux.before.out)

\* a >= 1 blocks, then b >= 1 blocks, on non-zero data.
C10_Witness ==
    /\ pc = "modes" /\ aux.mode = "cfb" /\ aux.phase = "enc" /\ aux.alias
    /\ Len(aux.segs) = 2 /\ aux.segs[1] >= 1 /\ aux.segs[2] >= 1
    /\ aux.p = InputWords
    /\ key = Key01
    /\ iv = BlockAt(outbuf, aux.pos - 1)
    /\ iv # aux.before.iv

\* C11: counter mode is its own inverse: after gostofb over the whole buffer,
\* a second gostofb with the same IV and key over the first n blocks of the
\* result (n any length up to the buffer's) gives back the first n blocks of
\* the original input.
C11_OfbSelfInverse ==
    (pc = "modes" /\ aux.mode = "ofb" /\ aux.phase = "dec" /\ Len(aux.segs) = 1)
    => \A i \in 0..(aux.pos - 1) : BlockAt(outbuf, i) = BlockAt(aux.p, i)

\* The second call covered the whole buffer, whose last block the first call
\* had changed; the first call wrote into a buffer of its own.
C11_Witness ==
    /\ pc = "modes" /\ aux.mode = "ofb" /\ aux.phase = "dec"
    /\ aux.segs = <<MaxBlocks>>
    /\ ~aux.alias
    /\ key = Key01
    /\ aux.p = InputWords
    /\ outbuf = aux.p
    /\ BlockAt(aux.before.out, MaxBlocks - 1) # BlockAt(aux.p, MaxBlocks - 1)
    /\ iv = aux.iv0

\* The number of blocks of the last call, and the first block it worked on.
LastLen == aux.segs[Len(aux.segs)]
LastOff == aux.pos - LastLen

\* C21: gostcfbdecrypt feeds back the ciphertext: each block it leaves is the
\* ciphertext block the buffer held XOR gostcrypt of the IV before that step,
\* that IV being the caller's for the first block and the previous ciphertext
\* block afterwards; after a call with len >= 1 the IV is the last
\* ciphertext block of the input.
C21_CfbFeedsCiphertext ==
    (pc = "modes" /\ aux.mode = "cfb" /\ aux.phase = "dec" /\ aux.segs # <<>> /\ LastLen >= 1)
    => /\ iv = BlockAt(aux.before.out, aux.pos - 1)
       /\ \A i \in LastOff..(aux.pos - 1) :
             BlockAt(outbuf, i) =
                 XorBlock(BlockAt(aux.before.out, i),
                          gostcrypt(Globals,
                                    IF i = LastOff THEN aux.before.iv
                                                   ELSE BlockAt(aux.before.out, i - 1),
                                    key))

\* One call over the whole buffer of encrypted data: the IV it leaves is the
\* last ciphertext block, which is neither the block recovered from it nor
\* the IV the call started with.
C21_Witness ==
    /\ pc = "modes" /\ aux.mode = "cfb" /\ aux.phase = "dec" /\ aux.segs = <<MaxBlocks>>
    /\ aux.alias /\ key = Key01 /\ aux.p = InputWords
    /\ iv = BlockAt(aux.before.out, MaxBlocks - 1)
    /\ iv # BlockAt(outbuf, MaxBlocks - 1)
    /\ iv # aux.before.iv
    /\ outbuf = aux.p

\* ctr_j: ctr_0 advanced j times, the first word by 0x01010101 and the second
\* by 0x01010104.
RECURSIVE CounterAfter(_, _)
CounterAfter(ctr0, j) ==
    IF j = 0 THEN ctr0
    ELSE Strict(LAMBDA c : Block(AddWrap(c[0], W32(\h01, \h01, \h01, \h01)),
                                 AddWrap(c[1], W32(\h01, \h01, \h01, \h04))),
                CounterAfter(ctr0, j - 1))

\* Block i of the key stream from the IV v: the 32 rounds of gostcrypt on
\* ctr_(i+1), ctr_0 being the 32 rounds on v.
KeyStream(v, i) ==
    ThirtyTwoRounds(Globals, CounterAfter(ThirtyTwoRounds(Globals, v, key), i + 1), key)

\* C20: one gostofb over len blocks writes, as block i (from 0), block i of
\* the input XOR gostcrypt(ctr_(i+1)), where ctr_0 = gostcrypt(IV) and
\* ctr_(j+1) is ctr_j with its first word advanced by 0x01010101 and its
\* second by 0x01010104: the counter is advanced before its first use.
C20_KeyStream ==
    (pc = "modes" /\ aux.mode = "ofb" /\ aux.phase = "enc" /\ Len(aux.segs) = 1)
    => \A i \in 0..(aux.pos - 1) :
          BlockAt(outbuf, i) = XorBlock(BlockAt(aux.p, i), KeyStream(aux.iv0, i))

\* One call over the whole buffer: block 0 is not the input XOR
\* gostcrypt(ctr_0), and the last block is not XORed with the key stream of
\* the block before it.
C20_Witness ==
    /\ pc = "modes" /\ aux.mode = "ofb" /\ aux.phase = "enc" /\ aux.segs = <<MaxBlocks>>
    /\ key = Key01
    /\ aux.p = InputWords
    /\ BlockAt(outbuf, 0) = XorBlock(BlockAt(aux.p, 0), KeyStream(aux.iv0, 0))
    /\ BlockAt(outbuf, 0) #
           XorBlock(BlockAt(aux.p, 0),
                    ThirtyTwoRounds(Globals, ThirtyTwoRounds(Globals, aux.iv0, key), key))
    /\ BlockAt(outbuf, MaxBlocks - 1) #
           XorBlock(BlockAt(aux.p, MaxBlocks - 1), KeyStream(aux.iv0, MaxBlocks - 2))

\* The buffer buf with every bit of block j inverted.
InvertedAt(buf, j) ==
    [k \in DOMAIN buf |->
        IF k \in {(2 * j) + 1, (2 * j) + 2} THEN Xor32(buf[k], W32(\hFF, \hFF, \hFF, \hFF))
                                            ELSE buf[k]]

\* Other inputs of the same length: those of the callers, and the input of
\* the call with one block changed.
OtherInputs ==
    {InputWords, ZeroWordsBuf, StaleWords} \cup {InvertedAt(aux.p, j) : j \in 0..(MaxBlocks - 1)}

\* C25: the key stream of gostofb does not depend on the data: for another
\* input b of the same length under the same key and IV,
\* gostofb(a) XOR gostofb(b) = a XOR b block by block, and changing block j of
\* the input changes no output block other than block j.
C25_KeyStreamIgnoresData ==
    (pc = "modes" /\ aux.mode = "ofb" /\ aux.phase = "enc" /\ Len(aux.segs) = 1)
    => /\ \A b \in OtherInputs :
             LET other == gostofb(Globals, b, aux.q, 0, aux.pos, aux.iv0, key).out
             IN  \A i \in 0..(aux.pos - 1) :
                    XorBlock(BlockAt(outbuf, i), BlockAt(other, i))
                        = XorBlock(BlockAt(aux.p, i), BlockAt(b, i))
       /\ \A j \in 0..(aux.pos - 1) :
             LET other == gostofb(Globals, InvertedAt(aux.p, j), aux.q, 0, aux.pos, aux.iv0, key).out
             IN  \A i \in (0..(aux.pos - 1)) \ {j} : BlockAt(other, i) = BlockAt(outbuf, i)

\* One call over the whole of a non-zero buffer: with block 0 of the input
\* inverted, block 0 of the output is inverted and the last block is the same.
C25_Witness ==
    /\ pc = "modes" /\ aux.mode = "ofb" /\ aux.phase = "enc" /\ aux.segs = <<MaxBlocks>>
    /\ key = Key01 /\ aux.p = InputWords /\ ~aux.alias
    /\ LET other == gostofb(Globals, InvertedAt(aux.p, 0), aux.q, 0, MaxBlocks, aux.iv0, key).out
       IN  /\ BlockAt(other, 0) # BlockAt(outbuf, 0)
           /\ BlockAt(other, MaxBlocks - 1) = BlockAt(outbuf, MaxBlocks - 1)
           /\ BlockAt(outbuf, MaxBlocks - 1) # BlockAt(aux.p, MaxBlocks - 1)

\* A longer ciphertext: what the buffer held before the call, followed by
\* other words; and its length in blocks.
LongCipher == aux.before.out \o StaleWords
LongBlocks == 2 * MaxBlocks

\* C30: gostcfbdecrypt is local: the block it recovers at place i is what a
\* call on ciphertext block i alone gives from the IV equal to ciphertext
\* block i-1 (the caller's IV for the first block), and in a buffer of
\* several blocks a change of ciphertext block j alone changes recovered
\* block j and no recovered block other than j and j+1.
C30_CfbDecryptIsLocal ==
    (pc = "modes" /\ aux.mode = "cfb" /\ aux.phase = "dec" /\ aux.segs # <<>> /\ LastLen >= 1)
    => /\ \A i \in LastOff..(aux.pos - 1) :
             LET c == BlockAt(aux.before.out, i)
                 v == IF i = LastOff THEN aux.before.iv ELSE BlockAt(aux.before.out, i - 1)
             IN  BlockAt(outbuf, i)
                     = BlockAt(gostcfbdecrypt(Globals, <<>>, <<c[0], c[1]>>, 0, 1, v, key).out, 0)
       /\ LET whole == gostcfbdecrypt(Globals, <<>>, LongCipher, 0, LongBlocks, aux.before.iv, key).out
          IN  \A j \in 0..(LongBlocks - 1) :
                 LET other == gostcfbdecrypt(Globals, <<>>, InvertedAt(LongCipher, j), 0,
                                             LongBlocks, aux.before.iv, key).out
                 IN  /\ BlockAt(other, j) # BlockAt(whole, j)
                     /\ \A i \in (0..(LongBlocks - 1)) \ {j, j + 1} :
                           BlockAt(other, i) = BlockAt(whole, i)

\* One call over the whole of an encrypted buffer; in the longer buffer a
\* change of block 0 changes recovered block 1 and leaves the last block.
C30_Witness ==
    /\ pc = "modes" /\ aux.mode = "cfb" /\ aux.phase = "dec" /\ aux.segs = <<MaxBlocks>>
    /\ aux.alias /\ key = Key01 /\ aux.p = InputWords
    /\ outbuf = aux.p
    /\ LET whole == gostcfbdecrypt(Globals, <<>>, LongCipher, 0, LongBlocks, aux.before.iv, key).out
           other == gostcfbdecrypt(Globals, <<>>, InvertedAt(LongCipher, 0), 0, LongBlocks,
                                   aux.before.iv, key).out
       IN  /\ BlockAt(other, 1) # BlockAt(whole, 1)
           /\ BlockAt(other, LongBlocks - 1) = BlockAt(whole, LongBlocks - 1)
           /\ BlockAt(whole, 0) = BlockAt(aux.p, 0)

----------------------------------------------------------------------------
(* The counter of gostofb on its own: temp holds any two words (gostcrypt is *)
(* a bijection, so every pair is the encryption of some IV), and each pass   *)
(* of the loop advances temp[0], then temp[1].  inbuf is temp.               *)

\* Passes of the loop followed.
MaxPasses == 3

\* Values on both sides of each wrap: 0xFEFEFEFE + 0x01010101 and
\* 0xFEFEFEFB + 0x01010104 are 0xFFFFFFFF, one more wraps to 0.
CounterHalves ==
    {Zero32, One32, W32(\h12, \h34, \h56, \h78), W32(\h80, \h00, \h00, \h00),
     W32(\hFE, \hFE, \hFE, \hFA), W32(\hFE, \hFE, \hFE, \hFB), W32(\hFE, \hFE, \hFE, \hFC),
     W32(\hFE, \hFE, \hFE, \hFD), W32(\hFE, \hFE, \hFE, \hFE), W32(\hFE, \hFE, \hFE, \hFF),
     W32(\hFD, \hFD, \hFD, \hFD), W32(\hFF, \hFF, \hFF, \hFE), W32(\hFF, \hFF, \hFF, \hFF)}

InitCounter ==
    /\ InitGlobals
    /\ key = ZeroKey
    /\ iv = NoIv
    /\ \E t0 \in CounterHalves : \E t1 \in CounterHalves : inbuf = Block(t0, t1)
    /\ outbuf = ZeroBlock
    /\ pc = "add0"
    /\ aux = [passes |-> 0, prev |-> ZeroBlock]

\* temp[0] += 0x01010101U; if (temp[0] < 0x01010101U) temp[0]++;
AdvanceFirst ==
    /\ pc = "add0" /\ aux.passes < MaxPasses
    /\ inbuf' = [inbuf EXCEPT ![0] = AddWrap(@, CounterC2)]
    /\ aux' = [aux EXCEPT !.prev = inbuf]
    /\ pc' = "add1"
    /\ UNCHANGED <<gvars, key, iv, outbuf>>

\* temp[1] += 0x01010104U; if (temp[1] < 0x01010104U) temp[1]++;
AdvanceSecond ==
    /\ pc = "add1"
    /\ inbuf' = [inbuf EXCEPT ![1] = AddWrap(@, CounterC1)]
    /\ aux' = [aux EXCEPT !.prev = inbuf, !.passes = @ + 1]
    /\ pc' = "add0"
    /\ UNCHANGED <<gvars, key, iv, outbuf>>

NextCounter ==
    \/ AdvanceFirst
    \/ AdvanceSecond

SpecCounter == InitCounter /\ [][NextCounter]_vars

\* A number below 2^34 as <<high part, low 16 bits>>.
Wide(hi, lo) == <<hi + (lo \div 65536), lo % 65536>>
WideOf(w) == Wide(w[3] + (256 * w[4]), w[1] + (256 * w[2]))

\* t + c = tn + q * (2^32 - 1) for some q, as numbers.
CongruentMod(t, c, tn) ==
    \E q \in 0..2 :
        Wide(WideOf(t)[1] + WideOf(c)[1], WideOf(t)[2] + WideOf(c)[2])
        = Wide(WideOf(tn)[1] + (q * 65535), WideOf(tn)[2] + (q * 65535))

IsWord32(w) == DOMAIN w = 1..4 /\ \A i \in 1..4 : w[i] \in 0..255

\* The half advanced by the last step, and its constant.
LastHalf == IF pc = "add1" THEN 0 ELSE 1
LastConstant == IF pc = "add1" THEN CounterC2 ELSE CounterC1

\* C19: an advance turns a counter half t into a 32-bit t' congruent to
\* t + C modulo 2^32 - 1 (0 and 0xFFFFFFFF both standing for zero) and never
\* 0, so no half is 0 once it has been advanced.
C19_AdvanceModulo ==
    /\ (pc = "add1" \/ aux.passes >= 1)
       => /\ CongruentMod(aux.prev[LastHalf], LastConstant, inbuf[LastHalf])
          /\ IsWord32(inbuf[LastHalf])
          /\ inbuf[LastHalf] # Zero32
          /\ inbuf[0] # Zero32
    /\ aux.passes >= 1 => inbuf[1] # Zero32

\* temp[0] was 0xFEFEFEFF: the 32-bit sum wrapped to 0 and the advance gave 1.
C19_Witness ==
    /\ pc = "add1"
    /\ aux.prev[0] = W32(\hFE, \hFE, \hFE, \hFF)
    /\ Add32(aux.prev[0], CounterC2) = Zero32
    /\ inbuf[0] = One32

----------------------------------------------------------------------------
(* The callers of the MAC: tests.c test_modes_and_mac and benchmark.c hand   *)
(* gostmac an array of words, a block count and a two-word array mac that    *)
(* holds whatever the memory held.  inbuf is the array, outbuf is mac.       *)

\* 0x11223344, 0x55667788, 0x99AABBCC, 0xDDEEFF00, tests.c test_modes_and_mac
MacTestInput ==
    [k \in 1..(2 * MaxBlocks) |->
        CASE k = 1 -> W32(\h11, \h22, \h33, \h44)
          [] k = 2 -> W32(\h55, \h66, \h77, \h88)
          [] k = 3 -> W32(\h99, \hAA, \hBB, \hCC)
          [] k = 4 -> W32(\hDD, \hEE, \hFF, \h00)
          [] OTHER -> Zero32] @@ <<>>

\* The tables as kboxinit builds them from zeroed static storage.
BuiltTables ==
    kboxinit([kbox_ready |-> 0, k87 |-> ZeroBytes, k65 |-> ZeroBytes, k43 |-> ZeroBytes,
              k21 |-> ZeroBytes, f_tables |-> Table([t \in 0..3 |-> ZeroWords])])

\* The eight lines of a pass of gostmac undone, last line first.
MacPassUndone(s, ky) ==
    LET U(v, j) == IF j % 2 = 0 THEN RoundN1(v, 7 - j, ky, BuiltTables, "f_fast")
                                ELSE RoundN2(v, 7 - j, ky, BuiltTables, "f_fast")
    IN  For(U, s, 0, 8)

\* The accumulator that the two passes of gostmac under ky turn into (0, 0).
MacZeroBlock(ky) ==
    Strict(LAMBDA v : MacPassUndone(v, ky), MacPassUndone([n1 |-> Zero32, n2 |-> Zero32], ky))

\* An input every block of which is that accumulator.
MacZeroInput(ky) ==
    LET z == MacZeroBlock(ky)
    IN  [k \in 1..(2 * MaxBlocks) |-> IF k % 2 = 1 THEN z.n1 ELSE z.n2] @@ <<>>

StaleMac == Block(W32(\hDE, \hAD, \hBE, \hEF), W32(\hBA, \hAD, \hF0, \h0D))

InitMac ==
    /\ InitGlobals
    /\ iv = NoIv
    /\ outbuf = StaleMac
    /\ pc = "mac"
    /\ aux = [len |-> 0, rd |-> 0, calls |-> 0]
    /\ \E k \in Keys :
         /\ key = k
         /\ inbuf \in {MacTestInput, InputWords, ZeroWordsBuf, StaleWords, MacZeroInput(k)}

Gostmac ==
    /\ pc = "mac" /\ aux.calls < MaxCalls
    /\ \E len \in 0..MaxBlocks :
         \E gg \in {kboxinit(Globals)} :
           \E r \in {gostmac(gg, inbuf, len, key)} :
             /\ SetGlobals(gg)
             /\ outbuf' = r.out
             /\ aux' = [len |-> len, rd |-> r.in, calls |-> aux.calls + 1]
             /\ UNCHANGED <<key, iv, inbuf, pc>>

NextMac ==
    \/ Kboxinit
    \/ Gostmac

SpecMac == InitMac /\ [][NextMac]_vars

----------------------------------------------------------------------------
(* Claims about the MAC *)

\* The block the last pass of the loop has read, and the accumulator word n1
\* it found, for a call on len >= 1 blocks.
LastMacBlock == Block(inbuf[(2 * aux.len) - 1], inbuf[2 * aux.len])
MacBefore == gostmac(Globals, inbuf, aux.len - 1, key).out[0]

\* C12 as stated: for every key and every input of at least one block, the
\* pair gostmac returns is not (0, 0).
C12_MacNonZero ==
    (pc = "mac" /\ aux.calls >= 1 /\ aux.len >= 1) => outbuf # ZeroBlock

\* C12 amended: the 2-block input 0x11223344, 0x55667788, 0x99AABBCC,
\* 0xDDEEFF00 under the all-zero key gives a non-zero pair, but a non-empty
\* input gives (0, 0) exactly when its last block (x0, x1) meets the
\* accumulator n1 with (n1 ^ x0, x1) equal to the block that two passes
\* through key[0..7] turn into (0, 0); every key has such inputs.
C12_MacZeroHasPreimage ==
    (pc = "mac" /\ aux.calls >= 1 /\ aux.len >= 1)
    => /\ (key = ZeroKey /\ inbuf = MacTestInput /\ aux.len = 2) => outbuf # ZeroBlock
       /\ outbuf = ZeroBlock
            <=> /\ Xor32(MacBefore, LastMacBlock[0]) = MacZeroBlock(key).n1
                /\ LastMacBlock[1] = MacZeroBlock(key).n2

\* A call over the whole of a non-zero input has returned (0, 0).
C12_Witness ==
    /\ pc = "mac" /\ aux.calls = 1 /\ aux.len = MaxBlocks
    /\ key = Key01
    /\ inbuf = MacZeroInput(key)
    /\ inbuf # ZeroWordsBuf
    /\ aux.rd = 2 * MaxBlocks
    /\ outbuf = ZeroBlock

\* C13: gostmac with len = 0 reads no word of in and leaves (0, 0) in out,
\* whatever the key.
C13_MacOfNothing ==
    (pc = "mac" /\ aux.calls >= 1 /\ aux.len = 0) => (outbuf = ZeroBlock /\ aux.rd = 0)

\* The call has overwritten what mac held, and has built the tables.
C13_Witness ==
    /\ pc = "mac" /\ aux.calls = 1 /\ aux.len = 0
    /\ key = KeyFF
    /\ inbuf = StaleWords
    /\ outbuf = ZeroBlock
    /\ outbuf # StaleMac
    /\ aux.rd = 0
    /\ kbox_ready = 1

\* The one-block input whose MAC under ky is (a, x): the two passes undone.
MacPreimage(a, x, ky) ==
    LET z == Strict(LAMBDA v : MacPassUndone(v, ky), MacPassUndone([n1 |-> a, n2 |-> x], ky))
    IN  <<z.n1, z.n2>>

\* Values for the second word of the MAC of another sequence of blocks.
SecondWords == {Zero32, W32(\hFF, \hFF, \hFF, \hFF), W32(\hDE, \hAD, \hBE, \hEF)}

\* C23: P being the blocks before the last block b of the call, and Q any
\* block sequence whose MAC has the same first word as that of P, with any
\* second word, gostmac(Q ++ [b]) = gostmac(P ++ [b]).
C23_MacDropsSecondWord ==
    (pc = "mac" /\ aux.calls >= 1 /\ aux.len >= 1)
    => \A x \in SecondWords :
          LET q == MacPreimage(MacBefore, x, key)
          IN  /\ gostmac(Globals, q, 1, key).out = Block(MacBefore, x)
              /\ gostmac(Globals, q \o <<LastMacBlock[0], LastMacBlock[1]>>, 2, key).out = outbuf

\* A call on two blocks with a non-zero MAC of the first block: a block Q
\* with the same first word and another second word gives the same result.
C23_Witness ==
    /\ pc = "mac" /\ aux.calls = 1 /\ aux.len = 2
    /\ key = Key01
    /\ inbuf = MacTestInput
    /\ MacBefore # Zero32
    /\ LET p == gostmac(Globals, inbuf, 1, key).out
           q == MacPreimage(MacBefore, Zero32, key)
       IN  /\ p[1] # Zero32
           /\ q # <<inbuf[1], inbuf[2]>>
           /\ gostmac(Globals, q, 1, key).out = Block(p[0], Zero32)
           /\ gostmac(Globals, q \o <<inbuf[3], inbuf[4]>>, 2, key).out = outbuf

\* Pairs of words to be reached as MACs.
MacTargets ==
    {ZeroBlock, StaleMac, Block(W32(\hFF, \hFF, \hFF, \hFF), Zero32),
     Block(One32, W32(\h80, \h00, \h00, \h00))}

\* The first blocks of the callers' inputs.
FirstBlocks ==
    {Block(b[1], b[2]) : b \in {MacTestInput, InputWords, ZeroWordsBuf, StaleWords}}

\* C28: under a fixed key gostmac on one block is a bijection of the pairs of
\* words: the block is recovered from its MAC by undoing the 16 rounds (so two
\* different blocks never have the same MAC), and every pair is the MAC of
\* the block that undoing the rounds from it gives.
C28_MacBlockBijective ==
    (pc = "mac" /\ aux.calls >= 1 /\ aux.len = 1)
    => /\ MacPreimage(outbuf[0], outbuf[1], key) = <<inbuf[1], inbuf[2]>>
       /\ \A b \in FirstBlocks \ {Block(inbuf[1], inbuf[2])} :
             gostmac(Globals, <<b[0], b[1]>>, 1, key).out # outbuf
       /\ \A y \in MacTargets :
             gostmac(Globals, MacPreimage(y[0], y[1], key), 1, key).out = y

\* The MAC of one non-zero block under a key of eight different words, and a
\* block other than the callers' that has the MAC (0xFFFFFFFF, 0).
C28_Witness ==
    /\ pc = "mac" /\ aux.calls = 1 /\ aux.len = 1
    /\ key = Key01
    /\ inbuf = MacTestInput
    /\ outbuf # Block(inbuf[1], inbuf[2])
    /\ MacPreimage(outbuf[0], outbuf[1], key) = <<inbuf[1], inbuf[2]>>
    /\ LET q == MacPreimage(W32(\hFF, \hFF, \hFF, \hFF), Zero32, key)
       IN  /\ Block(q[1], q[2]) \notin FirstBlocks
           /\ gostmac(Globals, q, 1, key).out = Block(W32(\hFF, \hFF, \hFF, \hFF), Zero32)

\* C22: gostmac of the single block (x0, x1) is (n1, n2), the registers of
\* gostcrypt on (x0, x1) after its first 16 rounds, in that order and not
\* swapped as gostcrypt stores them.
C22_MacIsSixteenRounds ==
    (pc = "mac" /\ aux.calls >= 1 /\ aux.len = 1)
    => outbuf = Strict(LAMBDA s : Block(s.n1, s.n2),
                       RoundByRound(Globals, Block(inbuf[1], inbuf[2]), key, 16))

\* The MAC of one block whose registers after 16 rounds differ: it is not the
\* swapped pair, not the block itself, and not what all 32 rounds give.
C22_Witness ==
    /\ pc = "mac" /\ aux.calls = 1 /\ aux.len = 1
    /\ key = Key01
    /\ inbuf = MacTestInput
    /\ outbuf[0] = RoundByRound(Globals, Block(inbuf[1], inbuf[2]), key, 16).n1
    /\ outbuf[0] # outbuf[1]
    /\ outbuf # Block(inbuf[1], inbuf[2])
    /\ outbuf # gostcrypt(Globals, Block(inbuf[1], inbuf[2]), key)

----------------------------------------------------------------------------
(* The callers of the batch engine: tests.c test_neon_batch_agreement and    *)
(* bench.c run_neon_batch_bench fill an array in, pass a second array out    *)
(* and a block count.  Here both arrays have MaxBatch blocks and the count   *)
(* is any number up to that; out starts with whatever the memory held.       *)

\* Blocks in the arrays handed to gostcrypt_neon_blocks.
MaxBatch == 9

\* x - y modulo 2^32
Sub32(x, y) == Add32(x, Add32(Xor32(y, W32(\hFF, \hFF, \hFF, \hFF)), One32))

\* in[i][0] = 0xA5A5A5A5u + i; in[i][1] = 0x5A5A5A5Au - i;
TestBatch ==
    [k \in 1..MaxBatch |->
        Block(Add32(W32(\hA5, \hA5, \hA5, \hA5), FromByte(k - 1)),
              Sub32(W32(\h5A, \h5A, \h5A, \h5A), FromByte(k - 1)))] @@ <<>>

\* in[2 * i] = i ^ 0x55AA55AAu; in[2 * i + 1] = (i + 1) ^ 0xAA55AA55u;
BenchBatch ==
    [k \in 1..MaxBatch |->
        Block(Xor32(FromByte(k - 1), W32(\h55, \hAA, \h55, \hAA)),
              Xor32(FromByte(k), W32(\hAA, \h55, \hAA, \h55)))] @@ <<>>

StaleBatch ==
    [k \in 1..MaxBatch |->
        Block(Times32(k, W32(\hDE, \hAD, \hBE, \hEF)), Times32(k, W32(\hBA, \hAD, \hF0, \h0D)))]
      @@ <<>>

\* key[i] = 0x0F0E0D0Cu * (i + 1), bench.c
Key0F == Table([i \in 0..7 |-> Times32(i + 1, W32(\h0F, \h0E, \h0D, \h0C))])
BatchKeys == {Key01, Key0F, KeyFF, ZeroKey}

InitBatch ==
    /\ InitGlobals
    /\ key \in BatchKeys
    /\ iv = NoIv
    /\ inbuf \in {TestBatch, BenchBatch}
    /\ outbuf = StaleBatch
    /\ pc = "batch"
    /\ aux \in [neon : BOOLEAN, blocks : 0..MaxBatch, called : {FALSE}]

GostcryptNeonBlocks ==
    /\ pc = "batch" /\ ~aux.called
    /\ \E gg \in {kboxinit(Globals)} :
         /\ SetGlobals(gg)
         /\ outbuf' = gostcrypt_neon_blocks(gg, aux.neon, inbuf, outbuf, aux.blocks, key)
    /\ aux' = [aux EXCEPT !.called = TRUE]
    /\ UNCHANGED <<key, iv, inbuf, pc>>

NextBatch ==
    \/ Kboxinit
    \/ GostcryptNeonBlocks

SpecBatch == InitBatch /\ [][NextBatch]_vars

\* C4: after gostcrypt_neon_blocks(in, out, N, key), for every i < N block i
\* of out is gostcrypt of block i of in under key, whatever N is and whether
\* the block fell into a 4-lane batch or into the remainder loop.
C4_BatchIsMap ==
    (pc = "batch" /\ aux.called)
    => \A i \in 0..(aux.blocks - 1) : outbuf[i + 1] = gostcrypt(Globals, inbuf[i + 1], key)

\* A 4-lane build has run on 4k + r blocks with k = 2 and r >= 1: the last
\* block came from the remainder loop, block 4 from the second batch, and the
\* blocks past the count are as they were.
C4_Witness ==
    /\ pc = "batch" /\ aux.called /\ aux.neon
    /\ aux.blocks > 8
    /\ key = Key01
    /\ inbuf = TestBatch
    /\ outbuf[aux.blocks] = gostcrypt(Globals, inbuf[aux.blocks], key)
    /\ outbuf[5] = gostcrypt(Globals, inbuf[5], key)
    /\ outbuf[5] # StaleBatch[5]
    /\ \A k \in (aux.blocks + 1)..MaxBatch : outbuf[k] = StaleBatch[k]

----------------------------------------------------------------------------
(* The interleaved variant of GOST.C: one set of tables T0 .. T3 with the    *)
(* S-box output rotated into place, a single-block core written out round   *)
(* by round, and engines that run 2 or 4 blocks through the rounds side by   *)
(* side.  Its kboxinit has no guard and its engines do not call it.  An      *)
(* array word32 [n] is a function on 0 .. n-1.                               *)

kboxinit_variant ==
    LET b87 == Table([i \in 0..255 |-> PackNibbles(k8, k7, i)])
        b65 == Table([i \in 0..255 |-> PackNibbles(k6, k5, i)])
        b43 == Table([i \in 0..255 |-> PackNibbles(k4, k3, i)])
        b21 == Table([i \in 0..255 |-> PackNibbles(k2, k1, i)])
    IN  [k87 |-> b87, k65 |-> b65, k43 |-> b43, k21 |-> b21,
         T0 |-> Table([i \in 0..255 |-> rotl32(FromByte(b21[i]), 11)]),
         T1 |-> Table([i \in 0..255 |-> rotl32(Shl32(FromByte(b43[i]), 8), 11)]),
         T2 |-> Table([i \in 0..255 |-> rotl32(Shl32(FromByte(b65[i]), 16), 11)]),
         T3 |-> Table([i \in 0..255 |-> rotl32(Shl32(FromByte(b87[i]), 24), 11)])]

\* T0[(unsigned char)x] ^ T1[(unsigned char)(x >> 8)] ^ T2[...(x >> 16)] ^ T3[...(x >> 24)]
f(t, x) ==
    Xor32(Xor32(Xor32(t.T0[Low8(x)], t.T1[Low8(Shr32(x, 8))]), t.T2[Low8(Shr32(x, 16))]),
          t.T3[Low8(Shr32(x, 24))])

\* The first half of GOST_ROUND_PAIR: (n2_a) ^= f((n1_a) + (key_a)); (n2_b) ^= ...
\* s is [n1_0, n2_0, n1_1, n2_1], the registers the macro is applied to.
PairN2(s, key_a, t) ==
    [s EXCEPT !.n2_0 = Xor32(@, f(t, Add32(s.n1_0, key_a))),
              !.n2_1 = Xor32(@, f(t, Add32(s.n1_1, key_a)))]

\* The second half: (n1_a) ^= f((n2_a) + (key_b)); (n1_b) ^= f((n2_b) + (key_b));
PairN1(s, key_b, t) ==
    [s EXCEPT !.n1_0 = Xor32(@, f(t, Add32(s.n2_0, key_b))),
              !.n1_1 = Xor32(@, f(t, Add32(s.n2_1, key_b)))]

GOST_ROUND_PAIR(s, key_a, key_b, t) == PairN1(PairN2(s, key_a, t), key_b, t)

\* The first half of GOST_ROUND_QUAD; s is [n1_0, n2_0, ..., n1_3, n2_3].
QuadN2(s, key_a, t) ==
    [s EXCEPT !.n2_0 = Xor32(@, f(t, Add32(s.n1_0, key_a))),
              !.n2_1 = Xor32(@, f(t, Add32(s.n1_1, key_a))),
              !.n2_2 = Xor32(@, f(t, Add32(s.n1_2, key_a))),
              !.n2_3 = Xor32(@, f(t, Add32(s.n1_3, key_a)))]

\* The second half of GOST_ROUND_QUAD.
QuadN1(s, key_b, t) ==
    [s EXCEPT !.n1_0 = Xor32(@, f(t, Add32(s.n2_0, key_b))),
              !.n1_1 = Xor32(@, f(t, Add32(s.n2_1, key_b))),
              !.n1_2 = Xor32(@, f(t, Add32(s.n2_2, key_b))),
              !.n1_3 = Xor32(@, f(t, Add32(s.n2_3, key_b)))]

\* Fault: the second half runs with key_a again.
GOST_ROUND_QUAD_stale_key(s, key_a, key_b, t) == QuadN1(QuadN2(s, key_a, t), key_a, t)

GOST_ROUND_QUAD(s, key_a, key_b, t) == QuadN1(QuadN2(s, key_a, t), key_b, t)

\* n2 ^= f(n1+key[ka]); n1 ^= f(n2+key[kb]); two lines of the single-block core.
LineN2(s, kw, t) == [s EXCEPT !.n2 = Xor32(@, f(t, Add32(s.n1, kw)))]
LineN1(s, kw, t) == [s EXCEPT !.n1 = Xor32(@, f(t, Add32(s.n2, kw)))]
TwoLines(s, key_a, key_b, t) == LineN1(LineN2(s, key_a, t), key_b, t)

\* The key word of each of the 32 rounds of encryption, in the order the
\* engines name them: key[0] .. key[7] three times, then key[7] .. key[0].
KeyOrder ==
    <<0, 1, 2, 3, 4, 5, 6, 7,  0, 1, 2, 3, 4, 5, 6, 7,
      0, 1, 2, 3, 4, 5, 6, 7,  7, 6, 5, 4, 3, 2, 1, 0>>

\* The words out[0], out[1] of the variant's gostcrypt(in, out, key): its 32
\* lines, two at a time.
gostcrypt_variant(t, in, ky) ==
    LET Lines(s, i) == TwoLines(s, ky[KeyOrder[(2 * i) + 1]], ky[KeyOrder[(2 * i) + 2]], t)
        Store(s) == Block(s.n2, s.n1)
    IN  Strict(Store, For(Lines, [n1 |-> in[0], n2 |-> in[1]], 0, 16))

\* The words out[0..3] of gostcrypt2(in, out, key): 16 uses of GOST_ROUND_PAIR.
gostcrypt2(t, in, ky) ==
    LET Pair(s, i) ==
            GOST_ROUND_PAIR(s, ky[KeyOrder[(2 * i) + 1]], ky[KeyOrder[(2 * i) + 2]], t)
        Store(s) == (0 :> s.n2_0) @@ (1 :> s.n1_0) @@ (2 :> s.n2_1) @@ (3 :> s.n1_1)
    IN  Strict(Store, For(Pair, [n1_0 |-> in[0], n2_0 |-> in[1],
                                 n1_1 |-> in[2], n2_1 |-> in[3]], 0, 16))

\* The words out[0..7] of gostcrypt4(in, out, key): 16 uses of GOST_ROUND_QUAD.
gostcrypt4(t, in, ky) ==
    LET Quad(s, i) ==
            GOST_ROUND_QUAD(s, ky[KeyOrder[(2 * i) + 1]], ky[KeyOrder[(2 * i) + 2]], t)
        Store(s) ==
            (0 :> s.n2_0) @@ (1 :> s.n1_0) @@ (2 :> s.n2_1) @@ (3 :> s.n1_1)
              @@ (4 :> s.n2_2) @@ (5 :> s.n1_2) @@ (6 :> s.n2_3) @@ (7 :> s.n1_3)
    IN  Strict(Store, For(Quad, [n1_0 |-> in[0], n2_0 |-> in[1],
                                 n1_1 |-> in[2], n2_1 |-> in[3],
                                 n1_2 |-> in[4], n2_2 |-> in[5],
                                 n1_3 |-> in[6], n2_3 |-> in[7]], 0, 16))

----------------------------------------------------------------------------
(* The same variant built with __ARM_NEON: the S-boxes as Boolean circuits   *)
(* evaluated on four lanes at once, and the 4-block engine built on them.    *)

\* Row p holds, for each of the four output bits, the set of monomials of the
\* four input bits whose XOR is that output bit; bit t of a mask stands for
\* the product of the input bits named by the bits of t.
sbox_anf ==
    Table([p \in 0..7 |->
        Table([ob \in 0..3 |->
            <<<<\h091F, \h013A, \h1F27, \h4E53>>,
              <<\h11DA, \h091E, \h1507, \h5492>>,
              <<\h54D2, \h3824, \h05B7, \h11CB>>,
              <<\h26B8, \h6BEF, \h0416, \h0DCA>>,
              <<\h1A1D, \h419B, \h5139, \h3A26>>,
              <<\h012C, \h5FE7, \h7638, \h6D7B>>,
              <<\h2835, \h01E7, \h1507, \h1C1B>>,
              <<\h0B24, \h766F, \h0D39, \h51D3>>>>
            [p + 1][ob + 1]])])

vdupq_n_s32(n) == <<n, n, n, n>>
vandq_u32(a, b) ==
    <<And32(a[1], b[1]), And32(a[2], b[2]), And32(a[3], b[3]), And32(a[4], b[4])>>
vorrq_u32(a, b) ==
    <<Or32(a[1], b[1]), Or32(a[2], b[2]), Or32(a[3], b[3]), Or32(a[4], b[4])>>

\* Each lane shifted by the signed count in the same lane of sh: left when
\* the count is positive, right when it is negative; counts are within -31 .. 31.
ShiftLane(x, n) == IF n >= 0 THEN Shl32(x, n) ELSE Shr32(x, 0 - n)
vshlq_u32(x, sh) ==
    <<ShiftLane(x[1], sh[1]), ShiftLane(x[2], sh[2]), ShiftLane(x[3], sh[3]),
      ShiftLane(x[4], sh[4])>>

vxor_u32(a, b) == veorq_u32(a, b)
vandq_u32_safe(a, b) == vandq_u32(a, b)
vshr_u32(x, n) == vshlq_u32(x, vdupq_n_s32(0 - n))
vshl_u32(x, n) == vshlq_u32(x, vdupq_n_s32(n))
vrotl32_u32(x, n) == vorrq_u32(vshl_u32(x, n), vshr_u32(x, 32 - n))

\* Fault: the loop starts at t = 1 and leaves out the constant monomial.
AnfAcc_skips_constant(mask, monomials) ==
    LET Body(acc, t) == IF Bit(mask, t) # 0 THEN vxor_u32(acc, monomials[t + 1]) ELSE acc
    IN  For(Body, vdupq_n_u32(Zero32), 1, 15)

\* acc after the inner loop over t = 0 .. 15: the XOR of the monomials whose
\* bit is set in mask.
AnfAcc(mask, monomials) ==
    LET Body(acc, t) == IF Bit(mask, t) # 0 THEN vxor_u32(acc, monomials[t + 1]) ELSE acc
    IN  For(Body, vdupq_n_u32(Zero32), 0, 16)

\* The vectors <<y0, y1, y2, y3>> written by sbox4_anf_u32x4(a0, a1, a2, a3, c, ...).
sbox4_anf_u32x4(a0, a1, a2, a3, c) ==
    LET one == vdupq_n_u32(One32)
        m0 == one
        m1 == a0
        m2 == a1
        m3 == vandq_u32_safe(a0, a1)
        m4 == a2
        m5 == vandq_u32_safe(a0, a2)
        m6 == vandq_u32_safe(a1, a2)
        m7 == vandq_u32_safe(m3, a2)
        m8 == a3
        m9 == vandq_u32_safe(a0, a3)
        m10 == vandq_u32_safe(a1, a3)
        m11 == vandq_u32_safe(m3, a3)
        m12 == vandq_u32_safe(a2, a3)
        m13 == vandq_u32_safe(m5, a3)
        m14 == vandq_u32_safe(m6, a3)
        m15 == vandq_u32_safe(m7, a3)
        Outputs(monomials) ==
            <<AnfAcc(c[0], monomials), AnfAcc(c[1], monomials),
              AnfAcc(c[2], monomials), AnfAcc(c[3], monomials)>>
    IN  Strict(Outputs, <<m0, m1, m2, m3, m4, m5, m6, m7,
                          m8, m9, m10, m11, m12, m13, m14, m15>>)

\* One pass of the loop of f_anf4: r ^= ny << base for the S-box at nibble p.
AnfNibble(x, r, p) ==
    LET base == 4 * p
        one == vdupq_n_u32(One32)
        a0 == vandq_u32_safe(vshr_u32(x, base + 0), one)
        a1 == vandq_u32_safe(vshr_u32(x, base + 1), one)
        a2 == vandq_u32_safe(vshr_u32(x, base + 2), one)
        a3 == vandq_u32_safe(vshr_u32(x, base + 3), one)
        Combine(y) ==
            LET ny == vxor_u32(vxor_u32(y[1], vshl_u32(y[2], 1)),
                               vxor_u32(vshl_u32(y[3], 2), vshl_u32(y[4], 3)))
            IN  vxor_u32(r, vshl_u32(ny, base))
    IN  Strict(Combine, sbox4_anf_u32x4(a0, a1, a2, a3, sbox_anf[p]))

f_anf4(x) ==
    LET Body(r, p) == AnfNibble(x, r, p)
        Rotate(r) == vrotl32_u32(r, 11)
    IN  Strict(Rotate, For(Body, vdupq_n_u32(Zero32), 0, 8))

\* k = vdupq_n_u32(kw); t = f_anf4(n1 + k) ^ n2; n2 = n1; n1 = t;
AnfRound(s, kw) ==
    LET Swap(t) == [n1 |-> veorq_u32(t, s.n2), n2 |-> s.n1]
    IN  Strict(Swap, Strict(f_anf4, vaddq_u32(s.n1, vdupq_n_u32(kw))))

\* The words out[0..7] of gostcrypt4_anf_neon(in, out, key): n1 is loaded from
\* in[0..3] and n2 from in[4..7]; n2 is stored to out[0..3], n1 to out[4..7].
gostcrypt4_anf_neon(in, ky) ==
    LET Load(b) == [n1 |-> <<b[0], b[1], b[2], b[3]>>, n2 |-> <<b[4], b[5], b[6], b[7]>>]
        \* for (i = 0; i < 24; ++i) with key[i & 7]
        Forward(s) == For(LAMBDA v, i : AnfRound(v, ky[i % 8]), s, 0, 24)
        \* for (i = 7; i >= 0; --i) with key[i]: pass number j has i = 7 - j
        Reverse(s) == For(LAMBDA v, j : AnfRound(v, ky[7 - j]), s, 0, 8)
        Store(s) == [i \in 0..7 |-> IF i < 4 THEN s.n2[i + 1] ELSE s.n1[i - 3]] @@ <<>>
    IN  Strict(Store, Strict(Reverse, Strict(Forward, Strict(Load, in))))

----------------------------------------------------------------------------
(* A caller of the variant's engines: it builds the tables once, then hands  *)
(* one engine an array of 8 words and an array out holding whatever the      *)
(* memory held.  neon tells whether the build defines __ARM_NEON.            *)

Words8(w) == [i \in 0..7 |-> w[i + 1]] @@ <<>>

\* 0x11223344, 0x55667788, 0x99AABBCC, ...
CountingWords8 ==
    Words8([k \in 1..8 |->
               Add32(W32(\h11, \h22, \h33, \h44), Times32(k - 1, W32(\h44, \h44, \h44, \h44)))])

VariantInputs ==
    {Words8([k \in 1..8 |-> Zero32]),
     Words8([k \in 1..8 |-> W32(\hFF, \hFF, \hFF, \hFF)]),
     CountingWords8,
     Words8([k \in 1..8 |-> Times32(k, W32(\h9E, \h37, \h79, \hB9))]),
     Words8([k \in 1..8 |-> IF k % 2 = 1
                            THEN Xor32(FromByte(k \div 2), W32(\h55, \hAA, \h55, \hAA))
                            ELSE Xor32(FromByte(k \div 2), W32(\hAA, \h55, \hAA, \h55))])}
StaleWords8 == Words8([k \in 1..8 |-> Times32(k, W32(\hDE, \hAD, \hBE, \hEF))])

\* The runs of a build with __ARM_NEON.
NeonKeys == {ZeroKey, KeyFF}
NeonInputs == {Words8([k \in 1..8 |-> Zero32]), CountingWords8}

InitVariant ==
    /\ InitGlobals
    /\ iv = NoIv
    /\ outbuf = StaleWords8
    /\ pc = "setup"
    /\ \E neon \in BOOLEAN :
         /\ key \in (IF neon THEN NeonKeys ELSE Keys)
         /\ inbuf \in (IF neon THEN NeonInputs ELSE VariantInputs)
         /\ aux = [neon |-> neon, engine |-> "none"]

KboxinitVariant ==
    /\ pc = "setup"
    /\ variant' = kboxinit_variant
    /\ pc' = "ready"
    /\ UNCHANGED <<kbox_ready, k87, k65, k43, k21, f_tables, key, iv, inbuf, outbuf, aux>>

\* Block j of an array of words.
WordsAt(a, j) == Block(a[2 * j], a[(2 * j) + 1])

\* The engine named e has written the words r to out[0 .. n-1].
EngineCall(e, r) ==
    /\ outbuf' = [i \in 0..7 |-> IF i \in DOMAIN r THEN r[i] ELSE outbuf[i]] @@ <<>>
    /\ aux' = [aux EXCEPT !.engine = e]
    /\ UNCHANGED <<gvars, key, iv, inbuf, pc>>

\* gostcrypt(&in[2 * j], &out[2 * j], key) for j = 0 .. 3
GostcryptEach ==
    /\ pc = "ready" /\ aux.engine = "none"
    /\ \E r \in {[i \in 0..7 |-> gostcrypt_variant(variant, WordsAt(inbuf, i \div 2), key)[i % 2]]} :
         EngineCall("gostcrypt", r)

Gostcrypt2 ==
    /\ pc = "ready" /\ aux.engine = "none"
    /\ \E r \in {gostcrypt2(variant, inbuf, key)} : EngineCall("gostcrypt2", r)

Gostcrypt4 ==
    /\ pc = "ready" /\ aux.engine = "none"
    /\ \E r \in {gostcrypt4(variant, inbuf, key)} : EngineCall("gostcrypt4", r)

Gostcrypt4AnfNeon ==
    /\ pc = "ready" /\ aux.engine = "none" /\ aux.neon
    /\ \E r \in {gostcrypt4_anf_neon(inbuf, key)} : EngineCall("gostcrypt4_anf_neon", r)

NextVariant ==
    \/ KboxinitVariant
    \/ GostcryptEach
    \/ Gostcrypt2
    \/ Gostcrypt4
    \/ Gostcrypt4AnfNeon

SpecVariant == InitVariant /\ [][NextVariant]_vars

\* C5: gostcrypt2 writes to out[2j], out[2j+1] the variant's gostcrypt of
\* in[2j], in[2j+1] for j = 0, 1, and gostcrypt4 does so for j = 0 .. 3.
C5_InterleavedIsSingle ==
    /\ (pc = "ready" /\ aux.engine = "gostcrypt2")
       => \A j \in 0..1 : WordsAt(outbuf, j) = gostcrypt_variant(variant, WordsAt(inbuf, j), key)
    /\ (pc = "ready" /\ aux.engine = "gostcrypt4")
       => \A j \in 0..3 : WordsAt(outbuf, j) = gostcrypt_variant(variant, WordsAt(inbuf, j), key)

\* gostcrypt4 has run on four different blocks under a key with carries: the
\* last block is the variant's gostcrypt of the last input block, and it is
\* not what the first block's input gives.
C5_Witness ==
    /\ pc = "ready" /\ aux.engine = "gostcrypt4"
    /\ key = KeyFF
    /\ WordsAt(inbuf, 3) # WordsAt(inbuf, 0)
    /\ WordsAt(outbuf, 3) = gostcrypt_variant(variant, WordsAt(inbuf, 3), key)
    /\ WordsAt(outbuf, 3) # gostcrypt_variant(variant, WordsAt(inbuf, 0), key)

\* C6: gostcrypt4_anf_neon(in, out, key) writes to out[0..7] the eight words
\* gostcrypt4(in, out, key) writes.
C6_AnfIsGostcrypt4 ==
    (pc = "ready" /\ aux.engine = "gostcrypt4_anf_neon")
    => outbuf = gostcrypt4(variant, inbuf, key)

----------------------------------------------------------------------------
(* The round function of the variant on its own: f_anf4 on a vector of four *)
(* words, and the table-driven f on each of the four words.                  *)

\* The word base with byte number q (0 the lowest) set to b.
WithByte(base, q, b) == [base EXCEPT ![q + 1] = b]

\* Lane l has byte l running over every value: every nibble at every one of
\* the eight positions meets every S-box input, over four different fillings
\* of the other bytes.
LaneBases ==
    <<Zero32, W32(\hFF, \hFF, \hFF, \hFF), W32(\h12, \h34, \h56, \h78),
      W32(\hA5, \hA5, \hA5, \hA5)>>
AnfVectors == {[l \in 1..4 |-> WithByte(LaneBases[l], l - 1, b)] : b \in 0..255}

InitAnf ==
    /\ InitGlobals
    /\ key = ZeroKey
    /\ iv = NoIv
    /\ inbuf \in AnfVectors
    /\ outbuf = vdupq_n_u32(Zero32)
    /\ pc = "setup"
    /\ aux = [called |-> {}, f |-> vdupq_n_u32(Zero32)]

\* uint32x4_t r = f_anf4(x);  It reads no table.
FAnf4 ==
    /\ "f_anf4" \notin aux.called
    /\ outbuf' = f_anf4(inbuf)
    /\ aux' = [aux EXCEPT !.called = @ \cup {"f_anf4"}]
    /\ UNCHANGED <<gvars, key, iv, inbuf, pc>>

\* f(x[l]) for each lane l, once the tables are built.
FTables ==
    /\ pc = "ready" /\ "f" \notin aux.called
    /\ aux' = [aux EXCEPT !.called = @ \cup {"f"},
                          !.f = [l \in 1..4 |-> f(variant, inbuf[l])]]
    /\ UNCHANGED <<gvars, key, iv, inbuf, outbuf, pc>>

NextAnf ==
    \/ KboxinitVariant
    \/ FAnf4
    \/ FTables

SpecAnf == InitAnf /\ [][NextAnf]_vars

\* The S-box applied to nibble p: k1 for p = 0 up to k8 for p = 7.
SBoxOfNibble == <<k1, k2, k3, k4, k5, k6, k7, k8>>

\* The value at the nibble v of the polynomial whose coefficients are the
\* bits of mask: the monomial t is 1 at v exactly when every input bit t
\* names is set in v.
AnfValue(mask, v) ==
    Cardinality({t \in 0..15 : AndNib[t][v] = t /\ Bit(mask, t) = 1}) % 2

\* C17: each lane of f_anf4(x) is f of that lane of x, and sbox_anf[p][ob] is
\* the algebraic normal form of output bit ob of the S-box applied to nibble
\* p (k1 for p = 0 up to k8 for p = 7).
C17_AnfIsF ==
    (pc = "ready" /\ aux.called = {"f_anf4", "f"})
    => /\ \A l \in 1..4 : outbuf[l] = aux.f[l]
       /\ \A p \in 0..7 : \A ob \in 0..3 : \A v \in 0..15 :
            AnfValue(sbox_anf[p][ob], v) = Bit(SBoxOfNibble[p + 1][v], ob)

\* Both have run on a vector whose lanes differ, and the results differ from
\* lane to lane and from the zero the buffers held.
C17_Witness ==
    /\ pc = "ready" /\ aux.called = {"f_anf4", "f"}
    /\ inbuf[1] = WithByte(Zero32, 0, \h5A)
    /\ outbuf = aux.f
    /\ outbuf[1] # outbuf[2] /\ outbuf[3] # outbuf[4]
    /\ \A l \in 1..4 : outbuf[l] # Zero32

----------------------------------------------------------------------------
(* The counter mode of the variant, one block at a time and in batches of    *)
(* four.  The arrays in and out are functions on 0 .. 2n-1; alias tells that *)
(* out is in, so that what is read from in is what out holds at that time.   *)
(* st is [temp, out].                                                        *)

\* temp[0] += C2; if (temp[0] < C2) temp[0]++; temp[1] += C1; if (...) temp[1]++;
AdvanceTemp(temp) == Block(AddWrap(temp[0], CounterC2), AddWrap(temp[1], CounterC1))

\* in[k], read when the call has brought out to st.out.
ReadIn(in, alias, st, k) == IF alias THEN st.out[k] ELSE in[k]

\* One pass of a loop while (len--): block i.
OfbVariantBlock(t, in, alias, i, ky, st) ==
    LET temp == AdvanceTemp(st.temp)
        First(gamma) == [st.out EXCEPT ![2 * i] = Xor32(ReadIn(in, alias, st, 2 * i), gamma[0])]
        Second(gamma, o) ==
            [o EXCEPT ![(2 * i) + 1] =
                Xor32(ReadIn(in, alias, [st EXCEPT !.out = o], (2 * i) + 1), gamma[1])]
        Write(gamma) == [temp |-> temp, out |-> Second(gamma, First(gamma))]
    IN  Strict(Write, gostcrypt_variant(t, temp, ky))

\* gostofb of the variant: what the call leaves in out.
gostofb_variant(t, in, alias, out, len, ivv, ky) ==
    LET Pass(st, i) == OfbVariantBlock(t, in, alias, i, ky, st)
    IN  For(Pass, [temp |-> gostcrypt_variant(t, ivv, ky), out |-> out], 0, len).out

\* Fault: the four key stream blocks of a batch are made from one counter value.
OfbNeonBatch_one_counter(t, in, alias, b, ky, st) ==
    LET Gamma(s, i) == [temp |-> s.temp,
                        gamma |-> Append(s.gamma, gostcrypt_variant(t, AdvanceTemp(s.temp), ky))]
        Xor(s) ==
            LET base == 8 * b
                g == [k \in 0..7 |-> s.gamma[(k \div 2) + 1][k % 2]]
                in0 == [k \in 1..4 |-> ReadIn(in, alias, st, base + k - 1)]
                in1 == [k \in 1..4 |-> ReadIn(in, alias, st, base + k + 3)]
                out0 == veorq_u32(in0, [k \in 1..4 |-> g[k - 1]])
                out1 == veorq_u32(in1, [k \in 1..4 |-> g[k + 3]])
            IN  [temp |-> AdvanceTemp(s.temp),
                 out |-> [k \in DOMAIN st.out |->
                            IF k \in base..(base + 3) THEN out0[k - base + 1]
                            ELSE IF k \in (base + 4)..(base + 7) THEN out1[k - base - 3]
                            ELSE st.out[k]]]
    IN  Strict(Xor, For(Gamma, [temp |-> st.temp, gamma |-> <<>>], 0, 4))

\* One pass of while (len >= 4), on blocks 4b .. 4b+3: the counter advanced
\* and encrypted four times into gamma[0..7], in[0..7] loaded, XORed with
\* gamma lane by lane and stored to out[0..7].
OfbNeonBatch(t, in, alias, b, ky, st) ==
    LET Gamma(s, i) ==
            LET temp == AdvanceTemp(s.temp)
            IN  [temp |-> temp, gamma |-> Append(s.gamma, gostcrypt_variant(t, temp, ky))]
        Xor(s) ==
            LET base == 8 * b
                g == [k \in 0..7 |-> s.gamma[(k \div 2) + 1][k % 2]]
                in0 == [k \in 1..4 |-> ReadIn(in, alias, st, base + k - 1)]
                in1 == [k \in 1..4 |-> ReadIn(in, alias, st, base + k + 3)]
                out0 == veorq_u32(in0, [k \in 1..4 |-> g[k - 1]])
                out1 == veorq_u32(in1, [k \in 1..4 |-> g[k + 3]])
            IN  [temp |-> s.temp,
                 out |-> [k \in DOMAIN st.out |->
                            IF k \in base..(base + 3) THEN out0[k - base + 1]
                            ELSE IF k \in (base + 4)..(base + 7) THEN out1[k - base - 3]
                            ELSE st.out[k]]]
    IN  Strict(Xor, For(Gamma, [temp |-> st.temp, gamma |-> <<>>], 0, 4))

\* gostofb_neon: the batches while len >= 4, then the remaining blocks one
\* at a time from the counter the batches left.
gostofb_neon(t, in, alias, out, len, ivv, ky) ==
    LET Batch(st, b) == OfbNeonBatch(t, in, alias, b, ky, st)
        Pass(st, i) == OfbVariantBlock(t, in, alias, i, ky, st)
        Rest(st) == For(Pass, st, 4 * (len \div 4), len % 4)
    IN  Strict(Rest, For(Batch, [temp |-> gostcrypt_variant(t, ivv, ky), out |-> out],
                         0, len \div 4)).out

----------------------------------------------------------------------------
(* A caller of the two counter modes of the variant: it builds the tables,   *)
(* then calls one of them on the first len blocks of an array of MaxStream   *)
(* blocks, in place or into an array holding whatever the memory held.       *)

\* Blocks in the arrays handed to gostofb and gostofb_neon.
MaxStream == 9

\* 0x11223344, 0x55667788, 0x99AABBCC, ...
StreamInput ==
    [k \in 0..((2 * MaxStream) - 1) |->
        Add32(W32(\h11, \h22, \h33, \h44), Times32(k, W32(\h44, \h44, \h44, \h44)))]
ZeroStream == [k \in 0..((2 * MaxStream) - 1) |-> Zero32]
StaleStream == [k \in 0..((2 * MaxStream) - 1) |-> Times32(k + 1, W32(\hDE, \hAD, \hBE, \hEF))]

InitStream ==
    /\ InitGlobals
    /\ pc = "setup"
    /\ \E ki \in ModeKeyIvs, alias \in BOOLEAN :
         /\ key = ki[1]
         /\ iv = ki[2]
         /\ inbuf \in {StreamInput, ZeroStream}
         /\ outbuf = (IF alias THEN inbuf ELSE StaleStream)
         /\ aux = [alias |-> alias, engine |-> "none", len |-> 0,
                   before |-> [in |-> inbuf, out |-> outbuf]]

\* What a call on len blocks leaves in memory.
StreamCall(e, len, r) ==
    /\ outbuf' = r
    /\ inbuf' = IF aux.alias THEN r ELSE inbuf
    /\ aux' = [aux EXCEPT !.engine = e, !.len = len]
    /\ UNCHANGED <<gvars, key, iv, pc>>

GostofbVariant ==
    /\ pc = "ready" /\ aux.engine = "none"
    /\ \E len \in 0..MaxStream :
         StreamCall("gostofb", len, gostofb_variant(variant, inbuf, aux.alias, outbuf, len, iv, key))

GostofbNeon ==
    /\ pc = "ready" /\ aux.engine = "none"
    /\ \E len \in 0..MaxStream :
         StreamCall("gostofb_neon", len, gostofb_neon(variant, inbuf, aux.alias, outbuf, len, iv, key))

NextStream ==
    \/ KboxinitVariant
    \/ GostofbVariant
    \/ GostofbNeon

SpecStream == InitStream /\ [][NextStream]_vars

\* C29: gostofb_neon leaves in out what gostofb leaves there on the same
\* arguments: the same 2 * len words, and the words after them as they were.
C29_NeonStreamIsScalar ==
    (pc = "ready" /\ aux.engine = "gostofb_neon")
    => outbuf = gostofb_variant(variant, aux.before.in, aux.alias, aux.before.out, aux.len,
                                iv, key)

\* A call on one batch and a remainder: the first block after the batch is
\* XORed with the key stream of the fifth advance of the counter.
C29_Witness ==
    /\ pc = "ready" /\ aux.engine = "gostofb_neon"
    /\ aux.len = 5 /\ ~aux.alias
    /\ key = Key01 /\ inbuf = StreamInput
    /\ LET ctr5 == For(LAMBDA c, j : AdvanceTemp(c), gostcrypt_variant(variant, iv, key), 0, 5)
           gamma == gostcrypt_variant(variant, ctr5, key)
       IN  /\ outbuf[8] = Xor32(inbuf[8], gamma[0])
           /\ outbuf[9] = Xor32(inbuf[9], gamma[1])
    /\ outbuf[8] # StaleStream[8]
    /\ outbuf[10] = StaleStream[10]

----------------------------------------------------------------------------
(* gost.c: kboxinit and the public operations statement by statement, as     *)
(* threads run them.  A call of an operation is the list of what it runs: K  *)
(* is a call of kboxinit, R the rounds of one block (the evaluations of      *)
(* f_fast or f_reference).  A thread's pc is idle, check (at the test of     *)
(* kbox_ready), fill_bytes (at the first loop), fill_words (at the second),  *)
(* set_ready (at kbox_ready = 1) or rounds.  Threads interleave between      *)
(* statements; the code has no lock and no barrier.                          *)

Threads == {"main", "worker"}

\* Fault: the test of kbox_ready is missing.
kboxinit_entry_unguarded(ready) == "fill_bytes"

\* if (kbox_ready) return;
kboxinit_entry(ready) == IF ready # 0 THEN "return" ELSE "fill_bytes"

\* Fault: kbox_ready is never set.
kboxinit_after_never_ready(label) ==
    CASE label = "fill_bytes" -> "fill_words"
      [] label = "fill_words" -> "return"
      [] label = "set_ready" -> "return"

\* The statement after each statement of kboxinit.
kboxinit_after(label) ==
    CASE label = "fill_bytes" -> "fill_words"
      [] label = "fill_words" -> "set_ready"
      [] label = "set_ready" -> "return"

\* The first loop of kboxinit: k87[i] .. k21[i] for i = 0 .. 255.
FillBytesLoop ==
    [k87 |-> Table([i \in 0..255 |-> PackNibbles(k8, k7, i)]),
     k65 |-> Table([i \in 0..255 |-> PackNibbles(k6, k5, i)]),
     k43 |-> Table([i \in 0..255 |-> PackNibbles(k4, k3, i)]),
     k21 |-> Table([i \in 0..255 |-> PackNibbles(k2, k1, i)])]

\* base = (word32)b << 24, << 16, << 8 or << 0 for table t = 0, 1, 2 or 3, and
\* rotl32(base, 11), for every value b of a byte.
RotatedByte ==
    Table([t \in 0..3 |->
        Table([b \in 0..255 |-> rotl32(Shl32(FromByte(b), 24 - (8 * t)), 11)])])

\* The second loop: f_tables[0..3][i] from the byte tables as they are.
FillWordsLoop(b87, b65, b43, b21) ==
    Table([t \in 0..3 |->
        Table([i \in 0..255 |->
            CASE t = 0 -> RotatedByte[0][b87[i]]
              [] t = 1 -> RotatedByte[1][b65[i]]
              [] t = 2 -> RotatedByte[2][b43[i]]
              [] t = 3 -> RotatedByte[3][b21[i]]])])

RECURSIVE Times(_, _)
Times(n, stages) == IF n = 0 THEN <<>> ELSE stages \o Times(n - 1, stages)

\* Fault: gostmac runs its rounds without calling kboxinit.
Stages_mac_unprepared(op, len, neon) ==
    CASE op = "kboxinit" -> <<"K">>
      [] op \in {"gostcrypt", "gostdecrypt", "gostcrypt_reference", "gostdecrypt_reference"}
           -> <<"K", "R">>
      [] op = "gostofb" -> <<"K", "R">> \o Times(len, <<"K", "R">>)
      [] op \in {"gostcfbencrypt", "gostcfbdecrypt"} -> Times(len, <<"K", "R">>)
      [] op = "gostmac" -> Times(len, <<"R">>)
      [] op = "gostcrypt_neon_blocks"
           -> <<"K">> \o (IF neon THEN Times(len \div 4, <<"R">>) \o Times(len % 4, <<"K", "R">>)
                                   ELSE Times(len, <<"K", "R">>))

\* What a call of the operation op on len blocks runs, in order.
Stages(op, len, neon) ==
    CASE op = "kboxinit" -> <<"K">>
      [] op \in {"gostcrypt", "gostdecrypt", "gostcrypt_reference", "gostdecrypt_reference"}
           -> <<"K", "R">>
      [] op = "gostofb" -> <<"K", "R">> \o Times(len, <<"K", "R">>)
      [] op \in {"gostcfbencrypt", "gostcfbdecrypt"} -> Times(len, <<"K", "R">>)
      [] op = "gostmac" -> <<"K">> \o Times(len, <<"R">>)
      [] op = "gostcrypt_neon_blocks"
           -> <<"K">> \o (IF neon THEN Times(len \div 4, <<"R">>) \o Times(len % 4, <<"K", "R">>)
                                   ELSE Times(len, <<"K", "R">>))

PublicOps ==
    {"gostcrypt", "gostdecrypt", "gostcrypt_reference", "gostdecrypt_reference", "gostofb",
     "gostcfbencrypt", "gostcfbdecrypt", "gostmac", "gostcrypt_neon_blocks"}

\* The block counts a caller passes: none or one, and to the batch engine of
\* a build with __ARM_NEON__ also a full batch of four and one with a remainder.
Lens(op, neon) ==
    IF op = "gostcrypt_neon_blocks" THEN (IF neon THEN {0, 1, 4, 5} ELSE {0, 1})
    ELSE IF op \in {"gostofb", "gostcfbencrypt", "gostcfbdecrypt", "gostmac"} THEN {0, 1}
    ELSE {1}

\* Where a thread stands with the stages todo.
PcOf(todo) ==
    IF todo = <<>> THEN "idle" ELSE IF Head(todo) = "K" THEN "check" ELSE "rounds"

\* mode tells how the program uses its threads: alone (only main calls),
\* after_init (main has completed a kboxinit call before worker makes any
\* call) or unsynchronised (both call at will).
InitThreads ==
    /\ InitGlobals
    /\ key = ZeroKey
    /\ iv = NoIv
    /\ inbuf = ZeroBlock
    /\ outbuf = ZeroBlock
    /\ pc = [t \in Threads |-> "idle"]
    /\ \E mode \in {"alone", "after_init", "unsynchronised"}, neon \in BOOLEAN :
         aux = [mode |-> mode, neon |-> neon,
                todo |-> [t \in Threads |-> <<>>],
                calls |-> [t \in Threads |-> 0],
                explicit |-> FALSE,
                kdone |-> 0, fillers |-> {}, rewrite |-> FALSE, late |-> FALSE,
                evaluators |-> {}, early |-> FALSE]

MayCall(t) ==
    CASE aux.mode = "alone" -> t = "main"
      [] aux.mode = "after_init" -> t = "main" \/ aux.kdone >= 1
      [] aux.mode = "unsynchronised" -> TRUE

\* The stage at the head of todo is over.
StageDone(t, a) ==
    /\ pc' = [pc EXCEPT ![t] = PcOf(Tail(aux.todo[t]))]
    /\ aux' = [a EXCEPT !.todo[t] = Tail(@)]

\* A thread calls kboxinit or a public operation.
Call(t) ==
    /\ pc[t] = "idle" /\ aux.calls[t] < MaxCalls /\ MayCall(t)
    /\ \E op \in PublicOps \cup {"kboxinit"} :
         \E len \in Lens(op, aux.neon) :
           LET todo == Stages(op, len, aux.neon)
           IN  /\ pc' = [pc EXCEPT ![t] = PcOf(todo)]
               /\ aux' = [aux EXCEPT !.todo[t] = todo,
                                     !.calls[t] = @ + 1,
                                     !.explicit = @ \/ op = "kboxinit"]
    /\ UNCHANGED <<gvars, key, iv, inbuf, outbuf>>

\* if (kbox_ready) return;
Check(t) ==
    /\ pc[t] = "check"
    /\ IF kboxinit_entry(kbox_ready) = "return"
       THEN StageDone(t, [aux EXCEPT !.kdone = IF @ >= 2 THEN 2 ELSE @ + 1])
       ELSE /\ pc' = [pc EXCEPT ![t] = kboxinit_entry(kbox_ready)]
            /\ UNCHANGED aux
    /\ UNCHANGED <<gvars, key, iv, inbuf, outbuf>>

\* What a write to the tables by thread t adds to the record of the run.
Wrote(t) ==
    [aux EXCEPT !.fillers = @ \cup {t},
                !.rewrite = @ \/ aux.kdone >= 1,
                !.late = @ \/ kbox_ready # 0 \/ aux.evaluators # {}]

FillBytes(t) ==
    /\ pc[t] = "fill_bytes"
    /\ k87' = FillBytesLoop.k87
    /\ k65' = FillBytesLoop.k65
    /\ k43' = FillBytesLoop.k43
    /\ k21' = FillBytesLoop.k21
    /\ pc' = [pc EXCEPT ![t] = kboxinit_after("fill_bytes")]
    /\ aux' = Wrote(t)
    /\ UNCHANGED <<kbox_ready, f_tables, variant, key, iv, inbuf, outbuf>>

FillWords(t) ==
    /\ pc[t] = "fill_words"
    /\ f_tables' = FillWordsLoop(k87, k65, k43, k21)
    /\ IF kboxinit_after("fill_words") = "return"
       THEN StageDone(t, [Wrote(t) EXCEPT !.kdone = IF @ >= 2 THEN 2 ELSE @ + 1])
       ELSE /\ pc' = [pc EXCEPT ![t] = kboxinit_after("fill_words")]
            /\ aux' = Wrote(t)
    /\ UNCHANGED <<kbox_ready, k87, k65, k43, k21, variant, key, iv, inbuf, outbuf>>

\* kbox_ready = 1; and the return of the call.
SetReady(t) ==
    /\ pc[t] = "set_ready"
    /\ kbox_ready' = 1
    /\ StageDone(t, [aux EXCEPT !.kdone = IF @ >= 2 THEN 2 ELSE @ + 1,
                                !.rewrite = @ \/ aux.kdone >= 1])
    /\ UNCHANGED <<k87, k65, k43, k21, f_tables, variant, key, iv, inbuf, outbuf>>

\* The rounds of one block: they read the tables through f_fast or f_reference.
Rounds(t) ==
    /\ pc[t] = "rounds"
    /\ StageDone(t, [aux EXCEPT !.evaluators = @ \cup {t},
                                !.early = @ \/ kbox_ready = 0])
    /\ UNCHANGED <<gvars, key, iv, inbuf, outbuf>>

NextThreads ==
    \E t \in Threads :
        \/ Call(t)
        \/ Check(t)
        \/ FillBytes(t)
        \/ FillWords(t)
        \/ SetReady(t)
        \/ Rounds(t)

SpecThreads == InitThreads /\ [][NextThreads]_vars

----------------------------------------------------------------------------
(* Claims about the tables *)

TablesBuilt ==
    /\ k87 = BuiltTables.k87
    /\ k65 = BuiltTables.k65
    /\ k43 = BuiltTables.k43
    /\ k21 = BuiltTables.k21
    /\ f_tables = BuiltTables.f_tables

\* C14: once one call of kboxinit has completed, no call made after it (by
\* the same thread, or by a thread started after it) writes to k87, k65, k43,
\* k21, f_tables or kbox_ready: the tables stay as built and kbox_ready stays 1.
C14_KboxinitIdempotent ==
    (aux.mode \in {"alone", "after_init"} /\ aux.kdone >= 1)
    => (~aux.rewrite /\ kbox_ready = 1 /\ TablesBuilt)

\* A second call of kboxinit has completed, and no rounds have run.
C14_Witness ==
    /\ aux.mode = "alone"
    /\ aux.explicit
    /\ aux.kdone = 2
    /\ aux.calls["main"] = 2
    /\ aux.evaluators = {}
    /\ pc["main"] = "idle"
    /\ aux.fillers = {"main"}
    /\ ~aux.rewrite
    /\ TablesBuilt

\* C15: in a program that calls the public operations from one thread, in any
\* order and without a call of kboxinit of its own, no rounds run while
\* kbox_ready is 0 or the tables are not built.
C15_LazyInit ==
    (aux.mode = "alone" /\ ~aux.explicit)
    => /\ ~aux.early
       /\ pc["main"] = "rounds" => (kbox_ready = 1 /\ TablesBuilt)

\* The first call has come to its rounds.
C15_Witness ==
    /\ aux.mode = "alone" /\ ~aux.explicit
    /\ aux.calls["main"] = 1
    /\ pc["main"] = "rounds"
    /\ aux.evaluators = {}
    /\ kbox_ready = 1
    /\ TablesBuilt

\* C16 as stated: however the threads interleave, the loops of kboxinit run in
\* at most one thread and no table entry is written once kbox_ready is 1 or
\* a thread has run rounds.
C16_BuiltOnce ==
    Cardinality(aux.fillers) <= 1 /\ ~aux.late

\* C16 amended: the tables are built once and read-only thereafter provided
\* a call of kboxinit has completed before a second thread makes any call.
C16_BuiltOnceAfterInit ==
    (aux.mode \in {"alone", "after_init"})
    => (aux.fillers \subseteq {"main"} /\ ~aux.late /\ ~aux.rewrite
          /\ (aux.evaluators # {} => TablesBuilt))

\* Both threads have run rounds on the tables main built.
C16_Witness ==
    /\ aux.mode = "after_init"
    /\ aux.fillers = {"main"}
    /\ aux.evaluators = Threads
    /\ ~aux.late
    /\ TablesBuilt

----------------------------------------------------------------------------
(* First calls of gostcrypt made by all threads at once, with the loops of   *)
(* kboxinit cut into parts: a thread runs a part of a loop (a range of i)    *)
(* between two steps of the others.  Every store of kboxinit is one          *)
(* assignment of a byte or a word; the second loop reads k87[i] .. k21[i]    *)
(* from the shared arrays.  outbuf[t] is the block thread t's call wrote.    *)

\* Parts each loop is cut into.
FillParts == 2

\* The indices i of part c.
PartOf(c) == ((c * 256) \div FillParts)..((((c + 1) * 256) \div FillParts) - 1)

\* Fault: kbox_ready = 1 is the first statement after the test, not the last.
kboxinit_order_ready_first(label, c) ==
    CASE label = "check" -> <<"set_ready", 0>>
      [] label = "set_ready" -> <<"fill_bytes", 0>>
      [] label = "fill_bytes" ->
            IF c + 1 < FillParts THEN <<"fill_bytes", c + 1>> ELSE <<"fill_words", 0>>
      [] label = "fill_words" ->
            IF c + 1 < FillParts THEN <<"fill_words", c + 1>> ELSE <<"rounds", 0>>

\* Where a thread that is in kboxinit (past the test, kbox_ready having been
\* 0) goes after the statement at label, part c: the first loop, the second
\* loop, kbox_ready = 1, and the return to gostcrypt's rounds.
kboxinit_order(label, c) ==
    CASE label = "check" -> <<"fill_bytes", 0>>
      [] label = "fill_bytes" ->
            IF c + 1 < FillParts THEN <<"fill_bytes", c + 1>> ELSE <<"fill_words", 0>>
      [] label = "fill_words" ->
            IF c + 1 < FillParts THEN <<"fill_words", c + 1>> ELSE <<"set_ready", 0>>
      [] label = "set_ready" -> <<"rounds", 0>>

InitRace ==
    /\ InitGlobals
    /\ key \in {Key01, KeyFF}
    /\ iv = NoIv
    /\ inbuf \in {ZeroBlock, Block(W32(\h12, \h34, \h56, \h78), W32(\h9A, \hBC, \hDE, \hF0))}
    /\ outbuf = [t \in Threads |-> ZeroBlock]
    /\ pc = [t \in Threads |-> "idle"]
    /\ aux = [part |-> [t \in Threads |-> 0], bytes |-> {}, words |-> {}]

\* The thread has done the statement at its label.
GoOn(t) ==
    /\ pc' = [pc EXCEPT ![t] = kboxinit_order(pc[t], aux.part[t])[1]]
    /\ aux' = [aux EXCEPT !.part[t] = kboxinit_order(pc[t], aux.part[t])[2],
                          !.bytes = IF pc[t] = "fill_bytes" THEN @ \cup {aux.part[t]} ELSE @,
                          !.words = IF pc[t] = "fill_words" THEN @ \cup {aux.part[t]} ELSE @]

\* gostcrypt(in, out, key) is called: kboxinit() is its first statement.
Enter(t) ==
    /\ pc[t] = "idle"
    /\ pc' = [pc EXCEPT ![t] = "check"]
    /\ UNCHANGED <<gvars, key, iv, inbuf, outbuf, aux>>

\* if (kbox_ready) return;
TestReady(t) ==
    /\ pc[t] = "check"
    /\ IF kbox_ready # 0
       THEN pc' = [pc EXCEPT ![t] = "rounds"] /\ UNCHANGED aux
       ELSE GoOn(t)
    /\ UNCHANGED <<gvars, key, iv, inbuf, outbuf>>

\* The passes of the first loop for the i of one part.
FillBytesPart(t) ==
    /\ pc[t] = "fill_bytes"
    /\ LET New(old, built) ==
               Table([i \in 0..255 |-> IF i \in PartOf(aux.part[t]) THEN built[i] ELSE old[i]])
       IN  /\ k87' = New(k87, FillBytesLoop.k87)
           /\ k65' = New(k65, FillBytesLoop.k65)
           /\ k43' = New(k43, FillBytesLoop.k43)
           /\ k21' = New(k21, FillBytesLoop.k21)
    /\ GoOn(t)
    /\ UNCHANGED <<kbox_ready, f_tables, variant, key, iv, inbuf, outbuf>>

\* The passes of the second loop for the i of one part, from the byte tables
\* as they are in memory.
FillWordsPart(t) ==
    /\ pc[t] = "fill_words"
    /\ LET w == FillWordsLoop(k87, k65, k43, k21)
       IN  f_tables' =
               Table([n \in 0..3 |->
                   Table([i \in 0..255 |->
                       IF i \in PartOf(aux.part[t]) THEN w[n][i] ELSE f_tables[n][i]])])
    /\ GoOn(t)
    /\ UNCHANGED <<kbox_ready, k87, k65, k43, k21, variant, key, iv, inbuf, outbuf>>

\* kbox_ready = 1;
StoreReady(t) ==
    /\ pc[t] = "set_ready"
    /\ kbox_ready' = 1
    /\ GoOn(t)
    /\ UNCHANGED <<k87, k65, k43, k21, f_tables, variant, key, iv, inbuf, outbuf>>

\* _gostcrypt(in, out, key, f_fast) on the tables as they are in memory.
RunRounds(t) ==
    /\ pc[t] = "rounds"
    /\ outbuf' = [outbuf EXCEPT ![t] = _gostcrypt(inbuf, key, Globals, "f_fast")]
    /\ pc' = [pc EXCEPT ![t] = "done"]
    /\ UNCHANGED <<gvars, key, iv, inbuf, aux>>

NextRace ==
    \E t \in Threads :
        \/ Enter(t)
        \/ TestReady(t)
        \/ FillBytesPart(t)
        \/ FillWordsPart(t)
        \/ StoreReady(t)
        \/ RunRounds(t)

SpecRace == InitRace /\ [][NextRace]_vars

\* The entries i of part c of the byte tables, or of the word tables, hold
\* the values a single-threaded kboxinit leaves there.
BytesFinal(c) ==
    \A i \in PartOf(c) :
        /\ k87[i] = BuiltTables.k87[i] /\ k65[i] = BuiltTables.k65[i]
        /\ k43[i] = BuiltTables.k43[i] /\ k21[i] = BuiltTables.k21[i]
WordsFinal(c) ==
    \A i \in PartOf(c) : \A n \in 0..3 : f_tables[n][i] = BuiltTables.f_tables[n][i]

\* C27: when the threads' first calls interleave statement by statement, an
\* entry that has been written holds from then on the value a single-threaded
\* kboxinit gives it, a thread that has returned from kboxinit finds every
\* table fully built, and the block each call writes is the block the same
\* call writes in a single-threaded run.
C27_RaceIsBenign ==
    /\ \A c \in aux.bytes : BytesFinal(c)
    /\ \A c \in aux.words : WordsFinal(c)
    /\ \A t \in Threads :
          /\ pc[t] \in {"rounds", "done"} => TablesBuilt
          /\ pc[t] = "done" => outbuf[t] = gostcrypt(BuiltTables, inbuf, key)

\* Both threads passed the test with kbox_ready = 0: main has built the
\* tables and written its block while worker is rewriting the first loop's
\* entries, the last part of the second loop not yet reached.
C27_Witness ==
    /\ pc["main"] = "done"
    /\ pc["worker"] = "fill_bytes" /\ aux.part["worker"] = FillParts - 1
    /\ kbox_ready = 1
    /\ aux.bytes = 0..(FillParts - 1) /\ aux.words = 0..(FillParts - 1)
    /\ key = Key01 /\ inbuf # ZeroBlock
    /\ outbuf["main"] = gostcrypt(BuiltTables, inbuf, key)
    /\ outbuf["main"] # ZeroBlock

====
